---- MODULE Spec2Model ----
(***************************************************************************)
(* The authenticated scraping/session engine of app.py as a state machine: *)
(* the shared session timestamp, the per-line display cache, the shared    *)
(* usage-cap cache, the file-based progress store, and the threads         *)
(* (operation workers, pooled balance fetchers, the scheduler's firings)   *)
(* that run ensure_logged_in, get_limits, fetch_balance_json,              *)
(* submit_limit_form, wait_until_done and set_limit_and_wait against a     *)
(* portal whose answers are chosen nondeterministically.                   *)
(*                                                                         *)
(* One thread step is one access to shared state or one network request;   *)
(* the progress_set / progress_done calls a step is followed by in the     *)
(* code are queued in the thread (field pq) and carried out by the         *)
(* progress actions before the thread's next step.                         *)
(***************************************************************************)
EXTENDS Integers, Sequences, FiniteSets, TLC

\* ------------------------------------------------------------ constants
CACHE_TTL_SECONDS == 20
LIMIT_CACHE_TTL_SECONDS == 1800
SESSION_OK_TTL_SECONDS == 900
BALANCE_WORKERS == 6
POLL_INTERVAL_SECONDS == 2
POLL_TIMEOUT_SECONDS == 45

\* --------------------------------------------------------------- bounds
\* MOBILES is a fixed list of four lines; the model keeps NumLines of them.
NumLines == 2
\* Operation worker threads that can be alive at once.
MaxWorkers == 2
\* Operation ids handed out by progress_init in one behaviour.
MaxOps == 2
\* ensure_logged_in calls a harness thread makes in one behaviour.
MaxCalls == 3
\* Times the portal ends the session in one behaviour.
MaxExpiries == 2
\* Scheduled firings a scheduler thread runs in one behaviour: next to a
\* concurrent operation, and on its own.
MaxFirings == 1
MaxUpdates == 2
NumProcs == 2       \* server processes (gunicorn workers) of the deployment

MOBILES == 1..NumLines
Workers == 1..MaxWorkers
OpIds == 1..MaxOps
\* Thread <<w, 0>> is worker w; <<w, m>> is the pool thread that worker w's
\* ThreadPoolExecutor runs for line m (BALANCE_WORKERS >= len(MOBILES), so
\* every submitted future gets a thread of its own).
TIDs == Workers \X (0..NumLines)
WorkerTIDs == {t \in TIDs : t[2] = 0}

\* time.time() at process start: far enough from 0.0 for the initial
\* timestamps (_LAST_LOGIN_OK_TS = 0.0, _LIMIT_CACHE ts = 0.0) to be stale.
StartTime == LIMIT_CACHE_TTL_SECONDS + SESSION_OK_TTL_SECONDS

None == 0 - 1      \* Python None where a number is expected
Absent == 0 - 2    \* a key that is not in a dict
NoOp == None        \* op_id = None
Procs == 1..NumProcs
NoProc == None      \* nobody holds the lock

\* ----------------------------------------------------------- variables
VARIABLES
  now,            \* time.time(), whole seconds
  creds,          \* ALDI_USERNAME / ALDI_PASSWORD: "missing" | "bad" | "good"
  lastLoginOk,    \* _LAST_LOGIN_OK_TS
  cache,          \* cache: line -> entry of the per-line display cache
  limTs,          \* _LIMIT_CACHE["ts"]
  limMap,         \* _LIMIT_CACHE["limits"]: line -> cap | None | Absent
  progress,       \* content of PROGRESS_PATH: op id -> record
  nextOp,         \* op ids issued so far (uuid4 never repeats)
  thr,            \* the threads: position and locals of each
  portalSession,  \* portal side: the session cookie is authenticated
  portalCap,      \* portal side: the cap shown on each line's panel
  portalPending,  \* portal side: the panel shows the pending marker
  portalTarget,   \* portal side: the cap a pending change will set
  expiries,       \* portal side: sessions ended so far
  limObt,         \* history: when limMap[m]'s value was obtained
  limTsW,         \* history: the thread whose write limTs holds
  limMapW,        \* history: the thread whose write limMap holds
  updRet,         \* history: line -> last successfully returned update
  writers,        \* history: <<op, thread>> for every progress_set/done call
  cfgFile,        \* content of CONFIG_PATH (schedule_matrix.json)
  lockHolder,     \* the process holding the flock on SCHED_LOCK_PATH
  proc,           \* the server processes: up, scheduler, its jobs
  schedOut,       \* what run_scheduled_set has printed
  fnArg,          \* the arguments of a function under study
  fnRet           \* what the function returned for them

vars == <<now, creds, lastLoginOk, cache, limTs, limMap, progress, nextOp, thr,
          portalSession, portalCap, portalPending, portalTarget, expiries,
          limObt, limTsW, limMapW, updRet, writers,
          cfgFile, lockHolder, proc, schedOut, fnArg, fnRet>>

fnVars == <<fnArg, fnRet>>
schedVars == <<cfgFile, lockHolder, proc, schedOut>>

portalVars == <<portalSession, portalCap, portalPending, portalTarget, expiries>>
limVars == <<limTs, limMap, limObt, limTsW, limMapW>>
progVars == <<progress, nextOp, writers>>

\* ------------------------------------------------------ error taxonomy
UPSTREAM_UNREACHABLE_MSG == "Cannot connect to ALDI Mobile (network/DNS)."

\* The text of an exception, word by word; a word is kept with its case
\* (cap: it has a capital), which str(e).lower() removes (line 167).
Words(ws, caps) == [i \in 1..Len(ws) |-> [w |-> ws[i], cap |-> i \in caps]]
Lower(text) == [i \in 1..Len(text) |-> [text[i] EXCEPT !.cap = FALSE]]

\* marker in low (line 176): the marker's words stand in the text, in a row
Contains(low, marker) ==
  \E i \in 0..(Len(low) - Len(marker)) :
     \A k \in 1..Len(marker) : low[i + k] = marker[k]

\* line 168-175
dns_markers ==
  {Words(<<"name", "resolution">>, {}),
   Words(<<"name", "or", "service", "not", "known">>, {}),
   Words(<<"temporary", "failure", "in", "name", "resolution">>, {}),
   Words(<<"nodename", "nor", "servname">>, {}),
   Words(<<"getaddrinfo">>, {}),
   Words(<<"failed", "to", "resolve">>, {})}

\* isinstance(e, base) for the exceptions of the requests library: SSLError,
\* ProxyError and ConnectTimeout derive from ConnectionError, ConnectTimeout
\* and ReadTimeout from Timeout, all of them from RequestException.
IsInstance(e, base) ==
  \/ e.cls = base
  \/ base = "RequestException"
  \/ base = "ConnectionError" /\ e.cls \in {"SSLError", "ProxyError", "ConnectTimeout"}
  \/ base = "Timeout" /\ e.cls \in {"ConnectTimeout", "ReadTimeout"}

\* the variant against which the statements about the classification of a
\* failed request are tried: the connection error is looked for first
ClassifyConnectionFirst(e) ==
  IF IsInstance(e, "ConnectionError")
    THEN IF \E marker \in dns_markers : Contains(Lower(e.text), marker)
           THEN [code |-> "DNS_FAIL", msg |-> UPSTREAM_UNREACHABLE_MSG]
           ELSE [code |-> "OUTBOUND_CONNECT_FAIL", msg |-> UPSTREAM_UNREACHABLE_MSG]
  ELSE IF IsInstance(e, "SSLError")
    THEN [code |-> "TLS_FAIL",
          msg |-> "Cannot establish a secure connection to ALDI Mobile (TLS)."]
  ELSE IF IsInstance(e, "Timeout")
    THEN [code |-> "OUTBOUND_TIMEOUT", msg |-> UPSTREAM_UNREACHABLE_MSG]
  ELSE [code |-> "OUTBOUND_REQUEST_FAIL", msg |-> "ALDI Mobile request failed."]

\* _classify_request_exception (lines 160-178)
_classify_request_exception(e) ==
  IF IsInstance(e, "SSLError")
    THEN [code |-> "TLS_FAIL",
          msg |-> "Cannot establish a secure connection to ALDI Mobile (TLS)."]
  ELSE IF IsInstance(e, "Timeout")
    THEN [code |-> "OUTBOUND_TIMEOUT", msg |-> UPSTREAM_UNREACHABLE_MSG]
  ELSE IF IsInstance(e, "ConnectionError")
    THEN IF \E marker \in dns_markers : Contains(Lower(e.text), marker)
           THEN [code |-> "DNS_FAIL", msg |-> UPSTREAM_UNREACHABLE_MSG]
           ELSE [code |-> "OUTBOUND_CONNECT_FAIL", msg |-> UPSTREAM_UNREACHABLE_MSG]
  ELSE [code |-> "OUTBOUND_REQUEST_FAIL", msg |-> "ALDI Mobile request failed."]

\* _http_error_code (lines 181-186)
_http_error_code(status_code) ==
  IF status_code = 403 THEN "HTTP_403"
  ELSE IF 500 <= status_code /\ status_code <= 599 THEN "HTTP_5XX"
  ELSE "HTTP_" \o ToString(status_code)

\* _http_error_message (lines 189-194)
_http_error_message(status_code) ==
  IF status_code = 403 THEN "ALDI Mobile refused access (HTTP 403)."
  ELSE IF 500 <= status_code /\ status_code <= 599
    THEN "ALDI Mobile is unavailable (HTTP 5xx)."
  ELSE "ALDI Mobile request failed (HTTP " \o ToString(status_code) \o ")."

\* _raise_if_http_error (lines 197-200): the UpstreamError raised for the
\* status of a response, none (code "") below 400
_raise_if_http_error(status_code) ==
  IF status_code >= 400
    THEN [code |-> _http_error_code(status_code),
          msg |-> _http_error_message(status_code)]
    ELSE [code |-> "", msg |-> ""]

\* A public_error_message with one text for every failure: the variant
\* against which the statements about the reported message are tried.
PublicErrorMessageGeneric(code) == "Operation failed"

\* The user_message an UpstreamError of each code carries (what
\* public_error_message returns for it); any other exception gives
\* "Operation failed".
public_error_message(code) ==
  CASE code = "TLS_FAIL" -> "Cannot establish a secure connection to ALDI Mobile (TLS)."
    [] code \in {"OUTBOUND_TIMEOUT", "DNS_FAIL", "OUTBOUND_CONNECT_FAIL"} -> UPSTREAM_UNREACHABLE_MSG
    [] code = "OUTBOUND_REQUEST_FAIL" -> "ALDI Mobile request failed."
    [] code = "HTTP_403" -> "ALDI Mobile refused access (HTTP 403)."
    [] code = "HTTP_5XX" -> "ALDI Mobile is unavailable (HTTP 5xx)."
    [] code = "LOGIN_CSRF_MISSING" -> "Could not find CSRF token on login page."
    [] code = "MISSING_CREDS" -> "Missing ALDI_USERNAME or ALDI_PASSWORD env vars."
    [] code = "LOGIN_FAILED" -> "Login failed."
    [] code = "BALANCE_PARSE_FAIL" -> "Failed to parse balance JSON."
    [] OTHER -> "Operation failed"

\* -------------------------------------------------------- thread record
NoCall == [start |-> None, end |-> None, reqs |-> 0, st |-> "none", ts0 |-> 0, log |-> <<>>]
NoLimits == [m \in MOBILES |-> Absent]
NoBal == [rem |-> None, used |-> None, err |-> "unset"]

\* What the wait_until_done harness (kind "poll") keeps of the loop: its
\* checks of the panel, every GET of the overview page issued since line 593
\* (those of ensure_logged_in included), its sleeps, and the elapsed time of
\* the check before the current one.
NoPoll == [checks |-> 0, ovs |-> 0, slept |-> 0, lastchk |-> 0]

IdleThread ==
  [kind |-> "idle", op |-> NoOp, pc |-> "idle", stack |-> <<>>,
   m |-> 0, v |-> "", force |-> FALSE,
   limits |-> NoLimits, bal |-> NoBal, line |-> [lim |-> None, used |-> None, rem |-> None],
   start |-> 0, wake |-> 0, pdone |-> FALSE, elapsed |-> 0,
   cnt |-> 0, got |-> {}, res |-> [m \in MOBILES |-> NoBal], idx |-> 0, ncalls |-> 0,
   err |-> "", resp |-> "none",
   d |-> <<>>, pq |-> <<>>, out |-> <<>>,
   call |-> NoCall, prev |-> NoCall, poll |-> NoPoll]

\* What an operation leaves as its result: nothing yet, {"error": msg}, the
\* dictionary set_limit_and_wait returns (line 624), or the items of a status
\* load (each with the line's number, display line, status, error code and
\* error timestamp; lines 1199-1206) / {"refreshed": True}.
NoResult ==
  [tag |-> "none", error |-> "", mobile |-> 0, requested |-> "", done |-> FALSE,
   elapsed |-> 0, line |-> [lim |-> None, used |-> None, rem |-> None], items |-> <<>>]
ErrorResult(msg) == [NoResult EXCEPT !.tag = "error", !.error = msg]
\* A worker that reports an update whose poll did not see the change applied
\* as a failure: the variant against which the statements about the partial
\* outcome are tried.
UpdateResultOrError(r, line) ==
  IF r.pdone
    THEN [tag |-> "update", error |-> "", mobile |-> r.m, requested |-> r.v,
          done |-> TRUE, elapsed |-> r.elapsed, line |-> line, items |-> <<>>]
    ELSE ErrorResult("Operation failed")

UpdateResult(r, line) ==
  [tag |-> "update", error |-> "", mobile |-> r.m, requested |-> r.v, done |-> r.pdone,
   elapsed |-> r.elapsed, line |-> line, items |-> <<>>]

\* progress_set(op_id, msg): `if not op_id: return`
Say(r, text, k) ==
  IF r.op = NoOp THEN r
  ELSE [r EXCEPT !.pq = Append(@, [k |-> "set", msg |-> <<text, k>>, ok |-> TRUE, result |-> NoResult])]

\* progress_done(op_id, ok, result)
SayDone(r, ok, result) ==
  IF r.op = NoOp THEN r
  ELSE [r EXCEPT !.pq = Append(@, [k |-> "done", msg |-> <<"", 0>>, ok |-> ok, result |-> result])]

\* progress_complete(op_id, result)
SayComplete(r, result) == SayDone(Say(r, "Complete", 0), TRUE, result)

CallTo(r, target, ret) == [r EXCEPT !.pc = target, !.stack = <<ret>> \o @]
Return(r) == [r EXCEPT !.pc = Head(r.stack), !.stack = Tail(@)]

\* An exception nothing catches: the variant against which the statements
\* about the scheduler's firings are tried.
RaiseUncaught(r, code) == [r EXCEPT !.pc = "crash", !.stack = <<>>, !.err = code]

\* An exception leaves every frame up to the thread's top-level handler:
\*   the workers' `except Exception as e: progress_done(op_id, False, ...)`,
\*   run_scheduled_set's `except Exception` (logged, swallowed),
\*   the future of a pool thread (kept until the worker asks for result()).
Raise(r, code) ==
  LET q == [r EXCEPT !.pc = "fin", !.stack = <<>>, !.err = code,
                     !.call = IF r.call.st = "run"
                                THEN [@ EXCEPT !.st = "fail", !.end = now]
                                ELSE @]
  IN IF r.kind \in {"home", "refresh", "setnow"}
       THEN SayDone(q, FALSE, ErrorResult(public_error_message(code)))
       ELSE q

Ready(t, label) == thr[t].pc = label /\ thr[t].pq = <<>>

\* ------------------------------------------------------- the portal
\* A looks_like_login_page that finds its markers in no page: the variant
\* against which the statements about the login check are tried.
OverviewNeverLogin == FALSE

\* What GET OVERVIEW_URL answers: the login page without a session.
OverviewIsLogin == ~portalSession

\* The outcomes of one request under the fault menu F: "ok" or a classified
\* transport / HTTP-status failure. "SHAPE" (the page lacks the line's panel,
\* form or token) and "JUNK" (a JSON content type with an unparsable body)
\* are faults of an answered request, chosen where the code looks for them;
\* so is "NOCSRF" (a login page without the _csrf_token input).
Outcomes(F) == {"ok"} \cup (F \ {"SHAPE", "JUNK", "NOCSRF"})
Shapes(F) == {"ok"} \cup (F \cap {"SHAPE"})
Bodies(F) == {"ok"} \cup (F \cap {"JUNK"})

\* ------------------------------------------------- ensure_logged_in
\* History kept for the ensure_logged_in harness (kind "auth"): the call in
\* progress and the one before it, each with its start, its end, the
\* requests it issued (their number, and in log what each was and answered),
\* the value _LAST_LOGIN_OK_TS had when it began, and how it ended.
CallBegin(r) ==
  IF r.kind # "auth" THEN r
  ELSE [r EXCEPT !.prev = r.call,
                 !.call = [start |-> now, end |-> None, reqs |-> 0, st |-> "run",
                           ts0 |-> lastLoginOk, log |-> <<>>]]
CountReq(r) == IF r.kind # "auth" THEN r ELSE [r EXCEPT !.call.reqs = @ + 1]
\* what the request just counted was and what it answered
Log(r, e) ==
  IF r.kind \in {"auth", "bal"} THEN [r EXCEPT !.call.log = Append(@, e)]
  ELSE IF r.kind = "poll" /\ e \in {"probe_err", "probe_page", "probe_login",
                                     "verify_err", "verify_login", "verify_page"}
    THEN [r EXCEPT !.poll.ovs = @ + 1]
  ELSE r
CallOk(r) == IF r.kind # "auth" THEN r ELSE [r EXCEPT !.call.st = "ok", !.call.end = now]
Csrfs(F) == {TRUE} \cup (IF "NOCSRF" \in F THEN {FALSE} ELSE {})

\* A window one second shorter than the one of line 269: the variant against
\* which the statements about the short-circuit are tried.
SessionFreshShort == now - lastLoginOk < SESSION_OK_TTL_SECONDS - 1

\* line 269: the last successful authentication is recent enough
SessionFresh == now - lastLoginOk < SESSION_OK_TTL_SECONDS

\* lines 268-272: the optimistic short-circuit
EliCheck(t) ==
  /\ Ready(t, "eli_check")
  /\ LET r0 == CallBegin(thr[t])
     IN thr' = [thr EXCEPT ![t] =
          IF SessionFresh
            THEN Return(CallOk(r0))
            ELSE [Say(r0, "Authenticating...", 0) EXCEPT !.pc = "eli_probe"]]
  /\ UNCHANGED <<fnVars, schedVars, now, creds, lastLoginOk, cache, limVars, progVars, portalVars, updRet>>

\* lines 274-281: the probe of the protected page
EliProbe(t, F) ==
  /\ Ready(t, "eli_probe")
  /\ \E o \in Outcomes(F) :
       LET r0 == CountReq(thr[t]) IN
       IF o # "ok"
         THEN /\ thr' = [thr EXCEPT ![t] = Raise(Log(r0, "probe_err"), o)]
              /\ UNCHANGED lastLoginOk
         ELSE IF ~OverviewIsLogin
           THEN /\ lastLoginOk' = now
                /\ thr' = [thr EXCEPT ![t] =
                     Return(CallOk(Say(Log(r0, "probe_page"), "Authenticated", 0)))]
           ELSE /\ thr' = [thr EXCEPT ![t] =
                      [Say(Log(r0, "probe_login"), "Opening login page...", 0)
                         EXCEPT !.pc = "eli_lp"]]
                /\ UNCHANGED lastLoginOk
  /\ UNCHANGED <<fnVars, schedVars, now, creds, cache, limVars, progVars, portalVars, updRet>>

\* An ensure_logged_in that posts whatever the credentials are: the variant
\* against which the statements about the order of the handshake are tried.
AfterCsrfNoCredsCheck(r, csrf) ==
  IF ~csrf THEN Raise(r, "LOGIN_CSRF_MISSING")
  ELSE [Say(r, "Authenticating...", 0) EXCEPT !.pc = "eli_post"]

\* lines 290-296, once a token was looked for: LOGIN_CSRF_MISSING,
\* MISSING_CREDS, or on to the credential POST
AfterCsrf(r, csrf) ==
  IF ~csrf THEN Raise(r, "LOGIN_CSRF_MISSING")
  ELSE IF creds = "missing" THEN Raise(r, "MISSING_CREDS")
  ELSE [Say(r, "Authenticating...", 0) EXCEPT !.pc = "eli_post"]

\* lines 282-285: the login page, first fetch
EliLoginPage(t, F) ==
  /\ Ready(t, "eli_lp")
  /\ \E o \in Outcomes(F), csrf \in Csrfs(F) :
       LET r0 == CountReq(thr[t]) IN
       thr' = [thr EXCEPT ![t] =
          IF o # "ok" THEN Raise(Log(r0, "lp_err"), o)
          ELSE IF ~csrf THEN [Log(r0, "lp_nocsrf") EXCEPT !.pc = "eli_lp2"]
          ELSE AfterCsrf(Log(r0, "lp_csrf"), TRUE)]
  /\ UNCHANGED <<fnVars, schedVars, now, creds, lastLoginOk, cache, limVars, progVars, portalVars, updRet>>

\* lines 286-288: the one retry of the login page
EliLoginPageRetry(t, F) ==
  /\ Ready(t, "eli_lp2")
  /\ \E o \in Outcomes(F), csrf \in Csrfs(F) :
       LET r0 == CountReq(thr[t]) IN
       thr' = [thr EXCEPT ![t] =
          IF o # "ok" THEN Raise(Log(r0, "lp_err"), o)
          ELSE AfterCsrf(Log(r0, IF csrf THEN "lp_csrf" ELSE "lp_nocsrf"), csrf)]
  /\ UNCHANGED <<fnVars, schedVars, now, creds, lastLoginOk, cache, limVars, progVars, portalVars, updRet>>

\* lines 298-305: the credential POST; the portal opens a session for good
\* credentials
EliPost(t, F) ==
  /\ Ready(t, "eli_post")
  /\ \E o \in Outcomes(F) :
       LET r0 == CountReq(thr[t]) IN
       IF o # "ok"
         THEN /\ thr' = [thr EXCEPT ![t] = Raise(Log(r0, "post_err"), o)]
              /\ UNCHANGED portalSession
         ELSE /\ thr' = [thr EXCEPT ![t] = [Log(r0, "post") EXCEPT !.pc = "eli_verify"]]
              /\ portalSession' = (portalSession \/ creds = "good")
  /\ UNCHANGED <<fnVars, schedVars, now, creds, lastLoginOk, cache, limVars, progVars,
                 portalCap, portalPending, portalTarget, expiries, updRet>>

\* lines 307-313: the verification fetch
EliVerifyOk(r) == Return(CallOk(Say(r, "Authenticated", 0)))

EliVerify(t, F) ==
  /\ Ready(t, "eli_verify")
  /\ \E o \in Outcomes(F) :
       LET r0 == CountReq(thr[t]) IN
       IF o # "ok"
         THEN /\ thr' = [thr EXCEPT ![t] = Raise(Log(r0, "verify_err"), o)]
              /\ UNCHANGED lastLoginOk
         ELSE IF OverviewIsLogin
           THEN /\ thr' = [thr EXCEPT ![t] = Raise(Log(r0, "verify_login"), "LOGIN_FAILED")]
                /\ UNCHANGED lastLoginOk
           ELSE /\ lastLoginOk' = now
                /\ thr' = [thr EXCEPT ![t] = EliVerifyOk(Log(r0, "verify_page"))]
  /\ UNCHANGED <<fnVars, schedVars, now, creds, cache, limVars, progVars, portalVars, updRet>>

ensure_logged_in(t, F) ==
  \/ EliCheck(t)
  \/ EliProbe(t, F)
  \/ EliLoginPage(t, F)
  \/ EliLoginPageRetry(t, F)
  \/ EliPost(t, F)
  \/ EliVerify(t, F)

\* ------------------------------------------------------- get_limits
\* _parse_limits_from_overview_html: None for every line first, then the
\* number found on the panel of each line the page shows; a login page
\* shows none.
parse_limits_from_overview_html(isLogin) ==
  [m \in MOBILES |-> IF isLogin THEN None ELSE portalCap[m]]

CacheHitLimits(force) ==
  /\ ~force
  /\ \E m \in MOBILES : limMap[m] # Absent
  /\ now - limTs < LIMIT_CACHE_TTL_SECONDS

\* lines 421-425: the cached answer, or on to ensure_logged_in
GlCheck(t) ==
  /\ Ready(t, "gl_check")
  /\ thr' = [thr EXCEPT ![t] =
       IF CacheHitLimits(thr[t].force)
         THEN Return([thr[t] EXCEPT !.limits = limMap])
         ELSE CallTo(thr[t], "eli_check", "gl_load")]
  /\ UNCHANGED <<fnVars, schedVars, now, creds, lastLoginOk, cache, limVars, progVars, portalVars, updRet>>

\* line 426
GlAnnounce(t) ==
  /\ Ready(t, "gl_load")
  /\ thr' = [thr EXCEPT ![t] =
       [Say(thr[t], "Loading limits (overview)...", 0) EXCEPT !.pc = "gl_fetch"]]
  /\ UNCHANGED <<fnVars, schedVars, now, creds, lastLoginOk, cache, limVars, progVars, portalVars, updRet>>

\* lines 428-433: the overview fetch; a login page clears the timestamp
GlFetch(t, F) ==
  /\ Ready(t, "gl_fetch")
  /\ \E o \in Outcomes(F) :
       IF o # "ok"
         THEN /\ thr' = [thr EXCEPT ![t] = Raise(thr[t], o)]
              /\ UNCHANGED lastLoginOk
         ELSE IF OverviewIsLogin
           THEN /\ lastLoginOk' = 0
                /\ thr' = [thr EXCEPT ![t] =
                     CallTo([thr[t] EXCEPT !.resp = "login"], "eli_check", "gl_fetch2")]
           ELSE /\ thr' = [thr EXCEPT ![t] =
                     [thr[t] EXCEPT !.resp = "page", !.pc = "gl_write_ts",
                                    !.limits = parse_limits_from_overview_html(FALSE)]]
                /\ UNCHANGED lastLoginOk
  /\ UNCHANGED <<fnVars, schedVars, now, creds, cache, limVars, progVars, portalVars, updRet>>

\* lines 434-437: the overview fetched again after the forced login; it is
\* parsed whatever it is
GlFetchAgain(t, F) ==
  /\ Ready(t, "gl_fetch2")
  /\ \E o \in Outcomes(F) :
       thr' = [thr EXCEPT ![t] =
         IF o # "ok" THEN Raise(thr[t], o)
         ELSE [thr[t] EXCEPT !.resp = IF OverviewIsLogin THEN "login2" ELSE "page",
                             !.pc = "gl_write_ts",
                             !.limits = parse_limits_from_overview_html(OverviewIsLogin)]]
  /\ UNCHANGED <<fnVars, schedVars, now, creds, lastLoginOk, cache, limVars, progVars, portalVars, updRet>>

\* line 438
GlWriteTs(t) ==
  /\ Ready(t, "gl_write_ts")
  /\ limTs' = now
  /\ limTsW' = t
  /\ thr' = [thr EXCEPT ![t].pc = "gl_write_map"]
  /\ UNCHANGED <<fnVars, schedVars, now, creds, lastLoginOk, cache, limMap, limObt, limMapW, progVars,
                 portalVars, updRet>>

\* lines 439-440
GlWriteMap(t) ==
  /\ Ready(t, "gl_write_map")
  /\ limMap' = thr[t].limits
  /\ limMapW' = t
  /\ limObt' = [m \in MOBILES |-> now]
  /\ thr' = [thr EXCEPT ![t] = Return(thr[t])]
  /\ UNCHANGED <<fnVars, schedVars, now, creds, lastLoginOk, cache, limTs, limTsW, progVars, portalVars, updRet>>

get_limits(t, F) ==
  \/ GlCheck(t)
  \/ GlAnnounce(t)
  \/ GlFetch(t, F)
  \/ GlFetchAgain(t, F)
  \/ GlWriteTs(t)
  \/ GlWriteMap(t)

\* ----------------------------------------------- fetch_balance_json
\* What the balance endpoint reports for a line: plan data remaining and the
\* data usage counter, already in GB (_extract_balance_items).
BalanceOf(m) == [rem |-> 2, used |-> 1, err |-> ""]

\* lines 469-476: the first GET; an answer that is not JSON clears the
\* timestamp and logs in again
FbGet(t, F) ==
  /\ Ready(t, "fb_get")
  /\ \E o \in Outcomes(F), b \in Bodies(F) :
       IF o # "ok"
         THEN /\ thr' = [thr EXCEPT ![t] = Raise(Log(thr[t], "bal_err"), o)]
              /\ UNCHANGED lastLoginOk
         ELSE IF ~portalSession
           THEN /\ lastLoginOk' = 0
                /\ thr' = [thr EXCEPT ![t] =
                     CallTo(Log(thr[t], "bal_html"), "eli_check", "fb_get2")]
           ELSE /\ thr' = [thr EXCEPT ![t] =
                     IF b # "ok" THEN Raise(Log(thr[t], "bal_junk"), "BALANCE_PARSE_FAIL")
                     ELSE Return([Log(thr[t], "bal_json") EXCEPT !.bal = BalanceOf(thr[t].m)])]
                /\ UNCHANGED lastLoginOk
  /\ UNCHANGED <<fnVars, schedVars, now, creds, cache, limVars, progVars, portalVars, updRet>>

\* A second attempt that asks the endpoint twice: the variant against which
\* the statements about the number of requests are tried.
FbGetTwice(t, F) ==
  /\ Ready(t, "fb_get2")
  /\ thr' = [thr EXCEPT ![t] =
       Return([Log(Log(thr[t], "bal_html"), "bal_json") EXCEPT !.bal = BalanceOf(thr[t].m)])]
  /\ UNCHANGED <<fnVars, schedVars, now, creds, lastLoginOk, cache, limVars, progVars, portalVars, updRet>>

\* lines 477-483: the second GET and the parse
FbGetAgain(t, F) ==
  /\ Ready(t, "fb_get2")
  /\ \E o \in Outcomes(F), b \in Bodies(F) :
       thr' = [thr EXCEPT ![t] =
         IF o # "ok" THEN Raise(Log(thr[t], "bal_err"), o)
         ELSE IF ~portalSession THEN Raise(Log(thr[t], "bal_html"), "BALANCE_PARSE_FAIL")
         ELSE IF b # "ok" THEN Raise(Log(thr[t], "bal_junk"), "BALANCE_PARSE_FAIL")
         ELSE Return([Log(thr[t], "bal_json") EXCEPT !.bal = BalanceOf(thr[t].m)])]
  /\ UNCHANGED <<fnVars, schedVars, now, creds, lastLoginOk, cache, limVars, progVars, portalVars, updRet>>

fetch_balance_json(t, F) ==
  \/ FbGet(t, F)
  \/ FbGetAgain(t, F)

\* ------------------------------------------------ display line, cache
Max(a, b) == IF a >= b THEN a ELSE b

\* A display line whose remaining data is the plain difference: the variant
\* against which the statements about the displayed remaining are tried.
BuildLineNoFloor(m, limits, bal) ==
  LET lim == IF limits[m] = Absent THEN None ELSE limits[m]
  IN [lim |-> lim,
      used |-> bal.used,
      rem |-> IF lim # None /\ bal.used # None /\ lim > 0
                THEN lim - bal.used
                ELSE bal.rem]

\* lines 489-499; the display line as its three fields
build_line_for_mobile(m, limits, bal) ==
  LET lim == IF limits[m] = Absent THEN None ELSE limits[m]
  IN [lim |-> lim,
      used |-> bal.used,
      rem |-> IF lim # None /\ bal.used # None /\ lim > 0
                THEN Max(lim - bal.used, 0)
                ELSE bal.rem]

NoEntry == [present |-> FALSE, ts |-> 0, line |-> IdleThread.line,
            status |-> "", error_code |-> "", error_ts |-> None]

\* lines 502-510
cache_set(c, m, line, status, error_code, error_ts) ==
  [c EXCEPT ![m] = [present |-> TRUE, ts |-> now, line |-> line,
                    status |-> status, error_code |-> error_code,
                    error_ts |-> error_ts]]

\* lines 513-520: the item, or NoEntry for None
cache_get(m) ==
  IF ~cache[m].present THEN NoEntry
  ELSE IF now - cache[m].ts > CACHE_TTL_SECONDS THEN NoEntry
  ELSE cache[m]

\* ------------------------------------------------ submit_limit_form
\* float(str(value).strip()), None when it raises
ParseFloat(v) ==
  CASE v = "7" -> 7
    [] v = "9" -> 9
    [] OTHER -> None

\* line 540, after the first ensure_logged_in
SlAnnounce(t) ==
  /\ Ready(t, "sl_load")
  /\ thr' = [thr EXCEPT ![t] =
       [Say(thr[t], "Loading overview for update...", 0) EXCEPT !.pc = "sl_fetch"]]
  /\ UNCHANGED <<fnVars, schedVars, now, creds, lastLoginOk, cache, limVars, progVars, portalVars, updRet>>

\* lines 550-576: the line's panel, form and token are looked for; with them
\* found the POST is announced
LocateForm(r, shape) ==
  LET r1 == Say(r, "Finding line in family plan...", 0) IN
  IF shape # "ok" THEN Raise(r1, "EXC")
  ELSE [Say(r1, "Submitting limit update...", 0) EXCEPT !.pc = "sl_post"]

\* lines 541-546
SlFetch(t, F) ==
  /\ Ready(t, "sl_fetch")
  /\ \E o \in Outcomes(F), s \in Shapes(F) :
       IF o # "ok"
         THEN /\ thr' = [thr EXCEPT ![t] = Raise(thr[t], o)]
              /\ UNCHANGED lastLoginOk
         ELSE IF OverviewIsLogin
           THEN /\ lastLoginOk' = 0
                /\ thr' = [thr EXCEPT ![t] =
                     CallTo([thr[t] EXCEPT !.resp = "login"], "eli_check", "sl_fetch2")]
           ELSE /\ thr' = [thr EXCEPT ![t] = LocateForm([thr[t] EXCEPT !.resp = "page"], s)]
                /\ UNCHANGED lastLoginOk
  /\ UNCHANGED <<fnVars, schedVars, now, creds, cache, limVars, progVars, portalVars, updRet>>

\* lines 547-551: the overview fetched again; on a login page
\* get_panel_for_mobile finds no line and raises
SlFetchAgain(t, F) ==
  /\ Ready(t, "sl_fetch2")
  /\ \E o \in Outcomes(F), s \in Shapes(F) :
       thr' = [thr EXCEPT ![t] =
         IF o # "ok" THEN Raise(thr[t], o)
         ELSE IF OverviewIsLogin THEN LocateForm([thr[t] EXCEPT !.resp = "login2"], "SHAPE")
         ELSE LocateForm([thr[t] EXCEPT !.resp = "page"], s)]
  /\ UNCHANGED <<fnVars, schedVars, now, creds, lastLoginOk, cache, limVars, progVars, portalVars, updRet>>

\* A POST that drops the line's cache entry before it is answered: the
\* variant against which the statements about the caches of a failed update
\* are tried.
SlPostEvictFirst(t, F) ==
  /\ Ready(t, "sl_post")
  /\ cache' = [cache EXCEPT ![thr[t].m] = NoEntry]
  /\ \E o \in Outcomes(F) :
       IF o # "ok"
         THEN /\ thr' = [thr EXCEPT ![t] = Raise(thr[t], o)]
              /\ UNCHANGED <<portalPending, portalTarget>>
         ELSE /\ thr' = [thr EXCEPT ![t].pc = "sl_write_map"]
              /\ IF portalSession /\ ParseFloat(thr[t].v) # None
                   THEN /\ portalPending' = [portalPending EXCEPT ![thr[t].m] = TRUE]
                        /\ portalTarget' = [portalTarget EXCEPT ![thr[t].m] = ParseFloat(thr[t].v)]
                   ELSE UNCHANGED <<portalPending, portalTarget>>
  /\ UNCHANGED <<fnVars, schedVars, now, creds, lastLoginOk, limVars, progVars,
                 portalSession, portalCap, expiries, updRet>>

\* lines 577-578: the form POST; the portal takes a numeric cap and shows the
\* line as pending until it has applied it
SlPost(t, F) ==
  /\ Ready(t, "sl_post")
  /\ \E o \in Outcomes(F) :
       IF o # "ok"
         THEN /\ thr' = [thr EXCEPT ![t] = Raise(thr[t], o)]
              /\ UNCHANGED <<portalPending, portalTarget>>
         ELSE /\ thr' = [thr EXCEPT ![t].pc = "sl_write_map"]
              /\ IF portalSession /\ ParseFloat(thr[t].v) # None
                   THEN /\ portalPending' = [portalPending EXCEPT ![thr[t].m] = TRUE]
                        /\ portalTarget' = [portalTarget EXCEPT ![thr[t].m] = ParseFloat(thr[t].v)]
                   ELSE UNCHANGED <<portalPending, portalTarget>>
  /\ UNCHANGED <<fnVars, schedVars, now, creds, lastLoginOk, cache, limVars, progVars,
                 portalSession, portalCap, expiries, updRet>>

\* lines 580-585: the optimistic write of the requested cap
SlWriteMap(t) ==
  /\ Ready(t, "sl_write_map")
  /\ limMap' = [limMap EXCEPT ![thr[t].m] = ParseFloat(thr[t].v)]
  /\ limMapW' = t
  /\ limObt' = [limObt EXCEPT ![thr[t].m] = now]
  /\ thr' = [thr EXCEPT ![t].pc = "sl_write_ts"]
  /\ UNCHANGED <<fnVars, schedVars, now, creds, lastLoginOk, cache, limTs, limTsW, progVars, portalVars, updRet>>

\* line 586
SlWriteTs(t) ==
  /\ Ready(t, "sl_write_ts")
  /\ limTs' = now
  /\ limTsW' = t
  /\ thr' = [thr EXCEPT ![t].pc = "sl_evict"]
  /\ UNCHANGED <<fnVars, schedVars, now, creds, lastLoginOk, cache, limMap, limObt, limMapW, progVars,
                 portalVars, updRet>>

\* lines 588-589
SlEvict(t) ==
  /\ Ready(t, "sl_evict")
  /\ cache' = [cache EXCEPT ![thr[t].m] = NoEntry]
  /\ thr' = [thr EXCEPT ![t] = Return(thr[t])]
  /\ UNCHANGED <<fnVars, schedVars, now, creds, lastLoginOk, limVars, progVars, portalVars, updRet>>

submit_limit_form(t, F) ==
  \/ SlAnnounce(t)
  \/ SlFetch(t, F)
  \/ SlFetchAgain(t, F)
  \/ SlPost(t, F)
  \/ SlWriteMap(t)
  \/ SlWriteTs(t)
  \/ SlEvict(t)

\* -------------------------------------------------- wait_until_done
\* line 593, and the loop's first ensure_logged_in
WuStart(t) ==
  /\ Ready(t, "wu_start")
  /\ thr' = [thr EXCEPT ![t] = CallTo([thr[t] EXCEPT !.start = now], "eli_check", "wu_fetch")]
  /\ UNCHANGED <<fnVars, schedVars, now, creds, lastLoginOk, cache, limVars, progVars, portalVars, updRet>>

\* A panel that always carries the marker: the variant against which the
\* statements about the first check are tried.
PanelPendingAlways(m) == TRUE

\* lines 598-600: "pending" occurs in the text of the line's panel
PanelPending(m) == portalPending[m]

\* A loop without its timeout: the variant against which the statements
\* about the end of the poll are tried.
TimedOutNever(e) == FALSE

\* line 606
TimedOut(e) == e > POLL_TIMEOUT_SECONDS

\* the harness's account of one GET of line 596 ...
Fetched(r) ==
  IF r.kind # "poll" THEN r
  ELSE [r EXCEPT !.poll.checks = @ + 1, !.poll.ovs = @ + 1]
\* ... and of one time.sleep of line 609
Slept(r) ==
  IF r.kind # "poll" THEN r
  ELSE [r EXCEPT !.poll.slept = @ + 1, !.poll.lastchk = now - r.start]

\* lines 596-609: one check of the line's panel
WuFetch(t, F) ==
  /\ Ready(t, "wu_fetch")
  /\ \E o \in Outcomes(F), s \in Shapes(F) :
       LET r0 == Fetched(thr[t]) IN
       thr' = [thr EXCEPT ![t] =
         IF o # "ok" THEN Raise(r0, o)
         ELSE IF OverviewIsLogin THEN Raise([r0 EXCEPT !.resp = "login"], "EXC")
         ELSE IF s # "ok" THEN Raise([r0 EXCEPT !.resp = "page"], "EXC")
         ELSE IF ~PanelPending(r0.m)
           THEN Return([r0 EXCEPT !.resp = "page", !.pdone = TRUE,
                                  !.elapsed = now - r0.start])
         ELSE LET r1 == Say([r0 EXCEPT !.resp = "page"],
                            "Waiting for ALDI to finish pending update...", 0)
              IN IF TimedOut(now - r0.start)
                   THEN Return([r1 EXCEPT !.pdone = FALSE, !.elapsed = now - r0.start])
                   ELSE [Slept(r1) EXCEPT !.pc = "wu_sleep",
                                          !.wake = now + POLL_INTERVAL_SECONDS]]
  /\ UNCHANGED <<fnVars, schedVars, now, creds, lastLoginOk, cache, limVars, progVars, portalVars, updRet>>

\* line 609, then line 595 of the next iteration
WuSleep(t) ==
  /\ Ready(t, "wu_sleep")
  /\ now >= thr[t].wake
  /\ thr' = [thr EXCEPT ![t] = CallTo(thr[t], "eli_check", "wu_fetch")]
  /\ UNCHANGED <<fnVars, schedVars, now, creds, lastLoginOk, cache, limVars, progVars, portalVars, updRet>>

wait_until_done(t, F) ==
  \/ WuStart(t)
  \/ WuFetch(t, F)
  \/ WuSleep(t)

\* ----------------------------------------------- set_limit_and_wait
\* lines 613-617: submit_limit_form, wait_until_done, get_limits(force=False)
\* and fetch_balance_json run one after the other; each returns into the next.
NoUpdate == [v |-> Absent, at |-> 0, done |-> FALSE]

EnterSetLimitAndWait(r, m, v) ==
  [r EXCEPT !.m = m, !.v = v, !.force = FALSE, !.pc = "eli_check",
            !.stack = <<"sl_load", "wu_start", "gl_check", "fb_get", "sw_cache">>]

\* lines 618-624, and what the caller does with the result: progress_complete
\* in api_set_now_start's worker, a log line in run_scheduled_set
SwCache(t) ==
  /\ Ready(t, "sw_cache")
  /\ LET r == thr[t]
         line == build_line_for_mobile(r.m, r.limits, r.bal)
     IN /\ cache' = cache_set(cache, r.m, line, "time", "", None)
        /\ updRet' = [updRet EXCEPT ![r.m] = [v |-> ParseFloat(r.v), at |-> now, done |-> r.pdone]]
        /\ thr' = [thr EXCEPT ![t] =
             IF r.kind = "setnow"
               THEN SayComplete([r EXCEPT !.pc = "fin", !.line = line], UpdateResult(r, line))
               ELSE [r EXCEPT !.pc = "fin", !.line = line]]
  /\ UNCHANGED <<fnVars, schedVars, now, creds, lastLoginOk, limVars, progVars, portalVars>>

set_limit_and_wait(t, F) ==
  \/ submit_limit_form(t, F)
  \/ wait_until_done(t, F)
  \/ SwCache(t)

\* ------------------------------------- home-status / refresh workers
\* The worker of api_home_status_start (kind "home") and of
\* api_refresh_start (kind "refresh"): get_limits, then one pooled
\* fetch_balance_json per line, then the display lines.

\* line 1162 / 1230: the count of fetched balances is announced as 0
HsAnnounce(t) ==
  /\ Ready(t, "hs_announce")
  /\ thr' = [thr EXCEPT ![t] =
       [Say(thr[t], "Fetching balances", 0) EXCEPT !.pc = "hs_fanout"]]
  /\ UNCHANGED <<fnVars, schedVars, now, creds, lastLoginOk, cache, limVars, progVars, portalVars, updRet>>

\* A worker that reads the shared caps again when it submits the futures:
\* the variant against which the statements about the snapshot of the caps
\* are tried.
HsFanoutRereads(t) ==
  /\ Ready(t, "hs_fanout")
  /\ thr' = [x \in TIDs |->
       IF x = t
         THEN [thr[t] EXCEPT !.pc = "hs_join", !.cnt = 0, !.got = {}, !.limits = limMap]
       ELSE IF x[1] = t[1]
         THEN [IdleThread EXCEPT !.kind = "pool", !.op = thr[t].op, !.m = x[2],
                                 !.pc = "fb_get", !.stack = <<"fin">>]
       ELSE thr[x]]
  /\ UNCHANGED <<fnVars, schedVars, now, creds, lastLoginOk, cache, limVars, progVars, portalVars, updRet>>

\* lines 1165-1166 / 1233-1234: the futures are submitted
HsFanout(t) ==
  /\ Ready(t, "hs_fanout")
  /\ thr' = [x \in TIDs |->
       IF x = t
         THEN [thr[t] EXCEPT !.pc = "hs_join", !.cnt = 0, !.got = {}]
       ELSE IF x[1] = t[1]
         THEN [IdleThread EXCEPT !.kind = "pool", !.op = thr[t].op, !.m = x[2],
                                 !.pc = "fb_get", !.stack = <<"fin">>]
       ELSE thr[x]]
  /\ UNCHANGED <<fnVars, schedVars, now, creds, lastLoginOk, cache, limVars, progVars, portalVars, updRet>>

\* A loop over the futures that lets the exception of a failed fetch through
\* to the worker's handler: the variant against which the statements about
\* the capture of a line's failure are tried.
HsJoinUncaught(t) ==
  /\ Ready(t, "hs_join")
  /\ \E m \in MOBILES \ thr[t].got :
       LET p == <<t[1], m>>
           r1 == [thr[t] EXCEPT !.got = @ \cup {m}, !.cnt = @ + 1, !.res[m] = thr[p].bal]
           r2 == Say(r1, "Fetching balances", r1.cnt)
       IN /\ thr[p].kind = "pool" /\ thr[p].pc = "fin" /\ thr[p].pq = <<>>
          /\ thr' = [x \in TIDs |->
               IF x = p \/ (x[1] = t[1] /\ x # t /\ thr[p].err # "") THEN IdleThread
               ELSE IF x # t THEN thr[x]
               ELSE IF thr[p].err # "" THEN Raise(thr[t], thr[p].err)
               ELSE IF r2.got = MOBILES THEN [r2 EXCEPT !.pc = "hs_build", !.idx = 1]
               ELSE r2]
  /\ UNCHANGED <<fnVars, schedVars, now, creds, lastLoginOk, cache, limVars, progVars, portalVars, updRet>>

\* lines 1168-1175 / 1236-1243: as_completed hands over one finished future;
\* leaving the `with` block waits for all of them
HsJoin(t) ==
  /\ Ready(t, "hs_join")
  /\ \E m \in MOBILES \ thr[t].got :
       LET p == <<t[1], m>>
           r1 == [thr[t] EXCEPT !.got = @ \cup {m}, !.cnt = @ + 1,
                    !.res[m] = IF thr[p].err = "" THEN thr[p].bal
                               ELSE [NoBal EXCEPT !.err = thr[p].err]]
           r2 == Say(r1, "Fetching balances", r1.cnt)
       IN /\ thr[p].kind = "pool" /\ thr[p].pc = "fin" /\ thr[p].pq = <<>>
          /\ thr' = [thr EXCEPT ![p] = IdleThread,
                                ![t] = IF r2.got = MOBILES
                                         THEN [r2 EXCEPT !.pc = "hs_build", !.idx = 1]
                                         ELSE r2]
  /\ UNCHANGED <<fnVars, schedVars, now, creds, lastLoginOk, cache, limVars, progVars, portalVars, updRet>>

\* lines 1177-1211 / 1245-1255: the display line of the next line is cached
\* (lines 1190-1196 / 1251-1253), home-status adds the line's item from what
\* cache_get gives back (lines 1198-1209); after the last one
\* progress_complete. The error timestamp is the time of the clock.
HsBuild(t) ==
  /\ Ready(t, "hs_build")
  /\ LET r == thr[t]
         m == r.idx
         failed == r.res[m].err # ""
         line == IF failed THEN IdleThread.line
                 ELSE build_line_for_mobile(m, r.limits, r.res[m])
         err_code == IF ~failed THEN ""
                     ELSE IF r.kind = "home" THEN "HOME_STATUS_FAIL" ELSE "REFRESH_FAIL"
         err_ts == IF failed THEN now ELSE None
         c2 == cache_set(cache, m, line, IF failed THEN "Error" ELSE "time", err_code, err_ts)
         cached == IF now - c2[m].ts > CACHE_TTL_SECONDS THEN NoEntry ELSE c2[m]
         item == [mobile |-> m,
                  line |-> IF cached.present THEN cached.line ELSE line,
                  status |-> IF cached.present THEN cached.status
                             ELSE IF failed THEN "Error" ELSE "time",
                  error_code |-> err_code, error_ts |-> err_ts]
         r1 == [r EXCEPT !.idx = @ + 1,
                         !.out = IF r.kind = "home" THEN Append(@, item) ELSE @]
     IN /\ cache' = c2
        /\ thr' = [thr EXCEPT ![t] =
             IF m = NumLines
               THEN SayComplete([r1 EXCEPT !.pc = "fin"],
                                [NoResult EXCEPT !.tag = IF r.kind = "home" THEN "items"
                                                         ELSE "refreshed",
                                                 !.items = r1.out])
               ELSE r1]
  /\ UNCHANGED <<fnVars, schedVars, now, creds, lastLoginOk, limVars, progVars, portalVars, updRet>>

status_worker(t) ==
  \/ HsAnnounce(t)
  \/ HsFanout(t)
  \/ HsJoin(t)
  \/ HsBuild(t)

\* ---------------------------------------------------- progress store
InitCall(text) == [k |-> "init", msg |-> <<text, 0>>, ok |-> TRUE, result |-> NoResult]

\* What progress_init (lines 352-359), progress_set (371-374) and
\* progress_done (385-389) make of the store they read.
ApplyCall(store, op, c) ==
  CASE c.k = "init" ->
         [store EXCEPT ![op] = [present |-> TRUE, msg |-> c.msg, seq |-> 1,
                                done |-> FALSE, ok |-> TRUE, result |-> NoResult]]
    [] c.k = "set" ->
         [store EXCEPT ![op].msg = c.msg, ![op].seq = @ + 1]
    [] OTHER ->
         [store EXCEPT ![op].done = TRUE, ![op].ok = c.ok, ![op].result = c.result]

\* `if not isinstance(st, dict): return` (lines 369-370, 383-384)
Writes(store, op, c) == c.k = "init" \/ store[op].present

\* _progress_read_all: the thread reads the whole file
ProgressRead(t) ==
  /\ thr[t].pq # <<>>
  /\ thr[t].d = <<>>
  /\ thr' = [thr EXCEPT ![t].d = <<progress>>]
  /\ UNCHANGED <<fnVars, schedVars, now, creds, lastLoginOk, cache, limVars, progVars, portalVars, updRet>>

\* _progress_write_all: the thread replaces the file by what it read, with
\* its own record changed
ProgressWrite(t) ==
  /\ thr[t].d # <<>>
  /\ LET c == Head(thr[t].pq)
         op == thr[t].op
         store == thr[t].d[1]
     IN IF Writes(store, op, c)
          THEN /\ progress' = ApplyCall(store, op, c)
               /\ writers' = IF c.k = "init" THEN writers ELSE writers \cup {<<op, t>>}
          ELSE UNCHANGED <<progress, writers>>
  /\ thr' = [thr EXCEPT ![t].pq = Tail(@), ![t].d = <<>>]
  /\ UNCHANGED <<fnVars, schedVars, now, creds, lastLoginOk, cache, limVars, nextOp, portalVars, updRet>>

\* The same call with nothing between its read and its write.
ProgressCall(t) ==
  /\ thr[t].pq # <<>>
  /\ thr[t].d = <<>>
  /\ LET c == Head(thr[t].pq)
         op == thr[t].op
     IN IF Writes(progress, op, c)
          THEN /\ progress' = ApplyCall(progress, op, c)
               /\ writers' = IF c.k = "init" THEN writers ELSE writers \cup {<<op, t>>}
          ELSE UNCHANGED <<progress, writers>>
  /\ thr' = [thr EXCEPT ![t].pq = Tail(@)]
  /\ UNCHANGED <<fnVars, schedVars, now, creds, lastLoginOk, cache, limVars, nextOp, portalVars, updRet>>

\* api_progress (lines 1141-1146): what a poll of op answers
api_progress(op) ==
  IF ~progress[op].present
    THEN [ok |-> FALSE, done |-> TRUE, msg |-> <<"Unknown operation", 0>>, seq |-> 0,
          result |-> ErrorResult("Unknown operation")]
    ELSE [ok |-> progress[op].ok, done |-> progress[op].done, msg |-> progress[op].msg,
          seq |-> progress[op].seq, result |-> progress[op].result]

\* ------------------------------------------------ starting operations
FreeWorker(t) ==
  /\ t \in WorkerTIDs
  /\ thr[t].pc = "idle"
  /\ \A x \in TIDs : x[1] = t[1] => thr[x].pc = "idle"

\* api_home_status_start (lines 1151-1160) and api_refresh_start
\* (1221-1228): progress_init, then the worker up to its get_limits call
StartStatus(t, kind) ==
  /\ FreeWorker(t)
  /\ nextOp < MaxOps
  /\ nextOp' = nextOp + 1
  /\ thr' = [thr EXCEPT ![t] =
       [IdleThread EXCEPT !.kind = kind, !.op = nextOp + 1, !.force = (kind = "refresh"),
          !.pc = "gl_check", !.stack = <<"hs_announce">>,
          !.pq = <<InitCall("Preparing..."),
                   [k |-> "set", ok |-> TRUE, result |-> NoResult,
                    msg |-> <<IF kind = "home" THEN "Loading limits..."
                              ELSE "Loading limits (fresh)...", 0>>]>>]]
  /\ UNCHANGED <<fnVars, schedVars, now, creds, lastLoginOk, cache, limVars, progress, writers, portalVars, updRet>>

\* api_set_now_start (lines 1273-1277)
StartSetNow(t, m, v) ==
  /\ FreeWorker(t)
  /\ nextOp < MaxOps
  /\ nextOp' = nextOp + 1
  /\ thr' = [thr EXCEPT ![t] =
       EnterSetLimitAndWait(
         [IdleThread EXCEPT !.kind = "setnow", !.op = nextOp + 1,
                            !.pq = <<InitCall("Authenticating...")>>], m, v)]
  /\ updRet' = [updRet EXCEPT ![m] = NoUpdate]
  /\ UNCHANGED <<fnVars, schedVars, now, creds, lastLoginOk, cache, limVars, progress, writers, portalVars>>

\* run_scheduled_set (lines 844-849): op_id = None
StartScheduled(t, m, v, n) ==
  /\ FreeWorker(t)
  /\ thr[t].ncalls < n
  /\ thr' = [thr EXCEPT ![t] =
       EnterSetLimitAndWait([IdleThread EXCEPT !.kind = "sched",
                                               !.ncalls = thr[t].ncalls + 1], m, v)]
  /\ updRet' = [updRet EXCEPT ![m] = NoUpdate]
  /\ UNCHANGED <<fnVars, schedVars, now, creds, lastLoginOk, cache, limVars, progVars, portalVars>>

\* The thread of a finished operation ends.
Finish(t) ==
  /\ t \in WorkerTIDs
  /\ Ready(t, "fin")
  /\ thr' = [thr EXCEPT ![t] = [IdleThread EXCEPT !.ncalls = thr[t].ncalls]]
  /\ UNCHANGED <<fnVars, schedVars, now, creds, lastLoginOk, cache, limVars, progVars, portalVars, updRet>>

\* ----------------------------------------------------- time, portal
\* The clock advances to a later instant; each specification names the
\* instants it looks at (the TTL boundaries and their neighbours).
Tick(instants) ==
  /\ \E n \in instants : n > now /\ now' = n
  /\ UNCHANGED <<fnVars, schedVars, creds, lastLoginOk, cache, limVars, progVars, thr, portalVars, updRet>>

\* The portal ends an idle session: the clock reaches a later instant and
\* the cookie is no longer accepted.
PortalExpire(instants) ==
  /\ portalSession
  /\ expiries < MaxExpiries
  /\ \E n \in instants : n > now /\ now' = n
  /\ expiries' = expiries + 1
  /\ portalSession' = FALSE
  /\ UNCHANGED <<fnVars, schedVars, creds, lastLoginOk, cache, limVars, progVars, thr,
                 portalCap, portalPending, portalTarget, updRet>>

\* The portal applies a pending cap change.
PortalApply(m) ==
  /\ portalPending[m]
  /\ portalPending' = [portalPending EXCEPT ![m] = FALSE]
  /\ portalCap' = [portalCap EXCEPT ![m] = portalTarget[m]]
  /\ UNCHANGED <<fnVars, schedVars, now, creds, lastLoginOk, cache, limVars, progVars, thr,
                 portalSession, portalTarget, expiries, updRet>>

\* The instant one poll interval after the start.
Instants == {StartTime + POLL_INTERVAL_SECONDS}

\* ------------------------------------------------ scheduler, config
\* The content of the schedule file: kind says whether the file exists and
\* holds JSON ("json"), is missing or is malformed. The JSON document is kept
\* by what _ensure_cfg_shape reads of it: the timezone ("" without the key),
\* and per known line whether it has an enabled key, the flag, the default
\* row and the week, a row being the list of its slots whatever its length.
\* A value of the wrong type (a document, a mobiles entry, a line, a week
\* that is no dictionary, a row that is no list) is kept as the absent one,
\* which _ensure_cfg_shape treats alike (lines 651, 655-656, 661-662,
\* 666-667, 673-674, 678-679).  A slot is a time text and a value text; a
\* time text is its characters, 0..9 for the digits and 10 for the colon.
DAYS == <<"mon", "tue", "wed", "thu", "fri", "sat", "sun">>
DaySet == {DAYS[i] : i \in 1..Len(DAYS)}
\* line 632
WEEKDAY_INDEX(day) == (CHOOSE i \in 1..Len(DAYS) : DAYS[i] = day) - 1
SlotsPerRow == 4
EmptySlot == [time |-> <<>>, value |-> ""]

\* lines 635-640
empty_default_row == [i \in 1..SlotsPerRow |-> EmptySlot]
empty_week == [d \in DaySet |-> empty_default_row]

\* lines 643-647
default_config ==
  [kind |-> "json", timezone |-> "Australia/Brisbane",
   mobiles |-> [m \in MOBILES |->
                  [has_enabled |-> TRUE, enabled |-> TRUE,
                   default |-> empty_default_row, week |-> empty_week]]]

\* A row brought to its length by padding alone: the variant against which
\* the statements about the shape of the matrix are tried.
PadOnly(row) ==
  [i \in 1..(IF Len(row) > SlotsPerRow THEN Len(row) ELSE SlotsPerRow) |->
     IF i <= Len(row) THEN row[i] ELSE EmptySlot]

\* lines 666-670, 678-682: the row extended with empty slots, then row[:4]
FourSlots(row) ==
  [i \in 1..SlotsPerRow |-> IF i <= Len(row) THEN row[i] ELSE EmptySlot]

\* A shaping that switches every line on: the variant against which the
\* statements about saving and loading are tried.
EnsureShapeAllOn(cfg) ==
  [kind |-> "json",
   timezone |-> IF cfg.timezone = "" THEN "Australia/Brisbane" ELSE cfg.timezone,
   mobiles |-> [m \in MOBILES |->
      [has_enabled |-> TRUE, enabled |-> TRUE,
       default |-> FourSlots(cfg.mobiles[m].default),
       week |-> [d \in DaySet |-> FourSlots(cfg.mobiles[m].week[d])]]]]

\* _ensure_cfg_shape (lines 650-688)
_ensure_cfg_shape(cfg) ==
  [kind |-> "json",
   timezone |-> IF cfg.timezone = "" THEN "Australia/Brisbane" ELSE cfg.timezone,
   mobiles |-> [m \in MOBILES |->
      [has_enabled |-> TRUE,
       enabled |-> IF cfg.mobiles[m].has_enabled THEN cfg.mobiles[m].enabled ELSE TRUE,
       default |-> FourSlots(cfg.mobiles[m].default),
       week |-> [d \in DaySet |-> FourSlots(cfg.mobiles[m].week[d])]]]]

\* load_cfg (lines 698-715): what it returns for the content of the file,
\* which is also what it has saved when it returns
load_cfg(file) ==
  IF file.kind # "json" THEN _ensure_cfg_shape(default_config)
  ELSE _ensure_cfg_shape(file)

\* The slots a form is filled with: empty, 6:00 -> 7, 600 -> 7 (no colon),
\* 6:00 without a value.
Slots ==
  {EmptySlot, [time |-> <<6, 10, 0, 0>>, value |-> "7"],
   [time |-> <<6, 0, 0>>, value |-> "7"], [time |-> <<6, 10, 0, 0>>, value |-> ""]}

\* pytz.timezone(name) returns (it raises UnknownTimeZoneError otherwise)
KnownZone(name) == name \in {"Australia/Brisbane", "UTC"}

\* t.split(":", 1) (line 823): the texts before and after the first colon
SplitTime(t) ==
  LET colons == {i \in 1..Len(t) : t[i] = 10}
      at == CHOOSE i \in colons : \A j \in colons : i <= j
  IN [hh |-> SubSeq(t, 1, at - 1), mm |-> SubSeq(t, at + 1, Len(t))]

\* str.isdigit()
isdigit(x) == Len(x) > 0 /\ \A i \in 1..Len(x) : x[i] \in 0..9

\* int(x) of a text of digits
RECURSIVE int(_)
int(x) == IF x = <<>> THEN 0 ELSE 10 * int(SubSeq(x, 1, Len(x) - 1)) + x[Len(x)]

\* lines 820-826: the slot gives a job
Schedulable(slot) ==
  /\ Len(slot.time) > 0 /\ slot.value # ""
  /\ \E i \in 1..Len(slot.time) : slot.time[i] = 10
  /\ isdigit(SplitTime(slot.time).hh) /\ isdigit(SplitTime(slot.time).mm)

\* Jobs added for the lines that are switched off as well: the variant
\* against which the statements about the job set are tried.
JobsOfEveryLine(cfg) ==
  {[id |-> <<m, d, i>>, day |-> d,
    hour |-> int(SplitTime(cfg.mobiles[m].week[d][i + 1].time).hh),
    minute |-> int(SplitTime(cfg.mobiles[m].week[d][i + 1].time).mm),
    timezone |-> cfg.timezone,
    mobile |-> m, value |-> cfg.mobiles[m].week[d][i + 1].value] :
     <<m, d, i>> \in {x \in MOBILES \X DaySet \X (0..(SlotsPerRow - 1)) :
                        Schedulable(cfg.mobiles[x[1]].week[x[2]][x[3] + 1])}}

\* lines 814-841: the jobs reload_jobs adds for a configuration, each with
\* its id (line, day, slot index from 0), its trigger and its args
JobsOf(cfg) ==
  {[id |-> <<m, d, i>>, day |-> d,
    hour |-> int(SplitTime(cfg.mobiles[m].week[d][i + 1].time).hh),
    minute |-> int(SplitTime(cfg.mobiles[m].week[d][i + 1].time).mm),
    timezone |-> cfg.timezone,
    mobile |-> m, value |-> cfg.mobiles[m].week[d][i + 1].value] :
     <<m, d, i>> \in {x \in MOBILES \X DaySet \X (0..(SlotsPerRow - 1)) :
                        /\ cfg.mobiles[x[1]].enabled
                        /\ Schedulable(cfg.mobiles[x[1]].week[x[2]][x[3] + 1])}}

\* CronTrigger(hour, minute) (line 830) takes the values of a time of the
\* day; it raises ValueError for any other
InRange(j) == j.hour <= 23 /\ j.minute <= 59

\* the place of a job in the loops of lines 816-821: line, day, slot
LoopIndex(id) == (id[1] * Len(DAYS) + WEEKDAY_INDEX(id[2])) * SlotsPerRow + id[3]

\* A rebuild that passes over a slot whose time CronTrigger does not take:
\* the variant against which the statements about such slots are tried.
ReloadJobsSkipping(pr, cfg) ==
  IF ~pr.sched THEN pr
  ELSE IF ~KnownZone(cfg.timezone) THEN [pr EXCEPT !.jobs = {}]
  ELSE [pr EXCEPT !.jobs = {j \in JobsOf(cfg) : InRange(j)}]

\* reload_jobs (lines 805-841) in a process: nothing without a scheduler;
\* else every job is removed, the file is loaded, and pytz.timezone raises or
\* the jobs are added, up to the first whose CronTrigger raises
reload_jobs(pr, cfg) ==
  IF ~pr.sched THEN pr
  ELSE IF ~KnownZone(cfg.timezone) THEN [pr EXCEPT !.jobs = {}]
  ELSE [pr EXCEPT !.jobs =
          {j \in JobsOf(cfg) :
             \A b \in JobsOf(cfg) : ~InRange(b) => LoopIndex(j.id) < LoopIndex(b.id)}]

\* A lock every process gets: the variant against which the statements about
\* the single scheduler are tried.
LockAlwaysFree(p) == TRUE

\* _try_acquire_scheduler_lock (lines 773-788): the process holds the lock
\* already, or flock(LOCK_EX | LOCK_NB) succeeds
LockFree(p) == lockHolder \in {NoProc, p}

\* A server process starts and imports the module (line 1549):
\* start_scheduler (lines 791-802).  With the lock and a configuration whose
\* timezone pytz does not know, or with a slot whose time CronTrigger does
\* not take, the import raises and the process is gone.
ProcStart(p) ==
  /\ ~proc[p].up
  /\ IF LockFree(p)
       THEN /\ KnownZone(load_cfg(cfgFile).timezone)
            /\ \A j \in JobsOf(load_cfg(cfgFile)) : InRange(j)
            /\ lockHolder' = p
            /\ cfgFile' = load_cfg(cfgFile)
            /\ proc' = [proc EXCEPT ![p] =
                 reload_jobs([up |-> TRUE, sched |-> TRUE, jobs |-> {}], cfgFile')]
       ELSE /\ proc' = [proc EXCEPT ![p] = [up |-> TRUE, sched |-> FALSE, jobs |-> {}]]
            /\ UNCHANGED <<lockHolder, cfgFile>>
  /\ UNCHANGED <<fnVars, schedOut, now, creds, lastLoginOk, cache, limVars, progVars,
                 thr, portalVars, updRet>>

\* A server process ends; its descriptors are closed, its threads are gone.
ProcExit(p) ==
  /\ proc[p].up
  /\ proc' = [proc EXCEPT ![p] = [up |-> FALSE, sched |-> FALSE, jobs |-> {}]]
  /\ lockHolder' = IF lockHolder = p THEN NoProc ELSE lockHolder
  /\ UNCHANGED <<fnVars, cfgFile, schedOut, now, creds, lastLoginOk, cache, limVars, progVars,
                 thr, portalVars, updRet>>

\* The form posted to /matrix-all: a timezone text, and for every line
\* the flag, the four slots of the default row and the 7 x 4 of the week.
\* Form(..) is the form with the lines `on` enabled, drow first in every
\* default row and slot at the places `at` (day, slot index) of every week.
Form(tz, on, drow, at, slot) ==
  [timezone |-> tz,
   lines |-> [m \in MOBILES |->
      [enabled |-> m \in on,
       default |-> [i \in 1..SlotsPerRow |-> IF i = 1 THEN drow ELSE EmptySlot],
       week |-> [d \in DaySet |-> [i \in 1..SlotsPerRow |->
                   IF <<d, i - 1>> \in at THEN slot ELSE EmptySlot]]]]]

Forms ==
  {Form(tz, on, drow, at, slot) :
     tz \in {"", "UTC", "Mars/Phobos"}, on \in {{}, {1}, MOBILES},
     drow \in {EmptySlot, [time |-> <<6, 10, 0, 0>>, value |-> "7"]},
     at \in {DaySet \X {0}, {<<"mon", 0>>, <<"sun", 3>>}, {<<"wed", 2>>}},
     slot \in Slots \cup {[time |-> <<2, 3, 10, 5, 9>>, value |-> "9"]}}

\* the forms that fill the first slot of every day, for all lines or none,
\* with 6:00 -> 7 or nothing, and leave the default rows empty
SchedForms ==
  {f \in Forms :
     /\ f.timezone # "UTC"
     /\ \A m \in MOBILES :
          /\ f.lines[m].enabled = f.lines[1].enabled
          /\ f.lines[m].default = empty_default_row
          /\ \A d \in DaySet :
               /\ f.lines[m].week[d][1] \in {EmptySlot, [time |-> <<6, 10, 0, 0>>, value |-> "7"]}
               /\ f.lines[m].week[d][1] = f.lines[m].week["mon"][1]
               /\ \A i \in 2..SlotsPerRow : f.lines[m].week[d][i] = EmptySlot}

\* lines 1327-1347: the loaded configuration with the fields of the form
FormConfig(cfg, f) ==
  [cfg EXCEPT
     !.timezone = IF f.timezone = "" THEN "Australia/Brisbane" ELSE f.timezone,
     !.mobiles = [m \in MOBILES |->
        [has_enabled |-> TRUE, enabled |-> f.lines[m].enabled,
         default |-> f.lines[m].default, week |-> f.lines[m].week]]]

\* matrix_all, POST (lines 1323-1351), served by process p: the loaded
\* configuration takes the form's fields, is saved, and reload_jobs follows
matrix_all(p, f) ==
  /\ proc[p].up
  /\ cfgFile' = load_cfg(FormConfig(load_cfg(cfgFile), f))
  /\ proc' = [proc EXCEPT ![p] = reload_jobs(proc[p], cfgFile')]
  /\ UNCHANGED <<fnVars, lockHolder, schedOut, now, creds, lastLoginOk, cache, limVars, progVars,
                 thr, portalVars, updRet>>

\* matrix_copy_defaults (lines 1286-1318), served by process p: every day of
\* the week of line m becomes the four slots of the posted defaults or,
\* without any, of the line's default row
matrix_copy_defaults(p, m, defaults) ==
  /\ proc[p].up
  /\ LET cfg == load_cfg(cfgFile)
         norm == FourSlots(IF defaults = <<>> THEN cfg.mobiles[m].default ELSE defaults)
     IN cfgFile' = load_cfg([cfg EXCEPT !.mobiles[m].week = [d \in DaySet |-> norm]])
  /\ proc' = [proc EXCEPT ![p] = reload_jobs(proc[p], cfgFile')]
  /\ UNCHANGED <<fnVars, lockHolder, schedOut, now, creds, lastLoginOk, cache, limVars, progVars,
                 thr, portalVars, updRet>>

\* The scheduler of process p fires the job of line m: run_scheduled_set
\* (line 846) in thread t.
Fire(p, t, m) ==
  /\ proc[p].sched
  /\ \E j \in proc[p].jobs :
       j.mobile = m /\ StartScheduled(t, m, j.value, MaxUpdates)

\* lines 847-849: the firing ends with its log line, an exception swallowed
run_scheduled_set_end(t) ==
  /\ thr[t].kind = "sched"
  /\ Ready(t, "fin")
  /\ schedOut' = Append(schedOut, [mobile |-> thr[t].m, ok |-> thr[t].err = ""])
  /\ thr' = [thr EXCEPT ![t] = [IdleThread EXCEPT !.ncalls = thr[t].ncalls]]
  /\ UNCHANGED <<fnVars, cfgFile, lockHolder, proc, now, creds, lastLoginOk, cache, limVars,
                 progVars, portalVars, updRet>>

\* ------------------------------------------------------------ harness
\* A caller that runs ensure_logged_in() and nothing else.
StartAuthCall(t) ==
  /\ thr[t].kind \in {"idle", "auth"} /\ thr[t].pc \in {"idle", "fin"}
  /\ thr[t].ncalls < MaxCalls
  /\ thr' = [thr EXCEPT ![t] =
       [CallTo(IdleThread, "eli_check", "fin") EXCEPT
          !.kind = "auth", !.ncalls = thr[t].ncalls + 1, !.call = thr[t].call]]
  /\ UNCHANGED <<fnVars, schedVars, now, creds, lastLoginOk, cache, limVars, progVars, portalVars, updRet>>

\* ------------------------------------------------------------- initial
\* the caches, the progress store and the threads of a process that has
\* just started
InitStores ==
  /\ lockHolder = NoProc
  /\ proc = [p \in Procs |-> [up |-> FALSE, sched |-> FALSE, jobs |-> {}]]
  /\ schedOut = <<>>
  /\ cache = [m \in MOBILES |-> NoEntry]
  /\ limTs = 0
  /\ limMap = NoLimits
  /\ progress = [o \in OpIds |-> [present |-> FALSE, msg |-> <<"", 0>>, seq |-> 0,
                                  done |-> FALSE, ok |-> FALSE, result |-> NoResult]]
  /\ nextOp = 0
  /\ thr = [t \in TIDs |-> IdleThread]
  /\ limObt = [m \in MOBILES |-> None]
  /\ limTsW = <<0, 0>>
  /\ limMapW = <<0, 0>>
  /\ updRet = [m \in MOBILES |-> NoUpdate]
  /\ writers = {}

\* no function is under study
NoFn == fnArg = None /\ fnRet = None

InitShared ==
  /\ now = StartTime
  /\ lastLoginOk = 0
  /\ InitStores
  /\ cfgFile = default_config
  /\ NoFn

\* A process that has just started holds no cookie: the portal has no
\* session for it.
InitPortal ==
  /\ portalSession = FALSE
  /\ portalCap = [m \in MOBILES |-> 5]
  /\ portalPending = [m \in MOBILES |-> FALSE]
  /\ portalTarget = [m \in MOBILES |-> 5]
  /\ expiries = 0

\* ---------------------------------------------------------- SpecAuth
\* One caller running ensure_logged_in again and again while the clock
\* advances and the portal may end the session.
AuthErrors == {"OUTBOUND_TIMEOUT", "HTTP_5XX", "NOCSRF"}
AuthThread == <<1, 0>>
AuthInstants ==
  {StartTime + d : d \in {1, SESSION_OK_TTL_SECONDS - 1, SESSION_OK_TTL_SECONDS,
                          SESSION_OK_TTL_SECONDS + 1, 2 * SESSION_OK_TTL_SECONDS}}

InitAuth ==
  /\ InitShared
  /\ InitPortal
  /\ creds \in {"missing", "bad", "good"}

NextAuth ==
  \/ StartAuthCall(AuthThread)
  \/ ensure_logged_in(AuthThread, AuthErrors)
  \/ Tick(AuthInstants)
  \/ PortalExpire(AuthInstants)

SpecAuth == InitAuth /\ [][NextAuth]_vars

\* ------------------------------------------------------ SpecProgress
\* One home-status operation with its pooled balance fetches, the portal
\* ending the session once; every progress call is a read of the whole
\* store followed by a write of the whole store.
InitProgress ==
  /\ InitShared
  /\ InitPortal
  /\ creds = "good"

NextProgress ==
  \/ StartStatus(<<1, 0>>, "home")
  \/ \E t \in TIDs : ensure_logged_in(t, {"NOCSRF"})
  \/ \E t \in TIDs : get_limits(t, {})
  \/ \E t \in TIDs : fetch_balance_json(t, {})
  \/ \E t \in TIDs : status_worker(t)
  \/ \E t \in TIDs : ProgressRead(t)
  \/ \E t \in TIDs : ProgressWrite(t)
  \/ \E t \in TIDs : Finish(t)
  \/ PortalExpire(Instants)

SpecProgress == InitProgress /\ [][NextProgress]_vars

StatusThread == <<1, 0>>

Init ==
  /\ InitShared
  /\ InitPortal
  /\ creds = "good"

\* -------------------------------------------------------- SpecLimits
\* The scheduler's firings one after the other (run_scheduled_set, no
\* operation id), with the clock reaching the two cache TTLs.
LimitsInstants ==
  {StartTime + d : d \in {CACHE_TTL_SECONDS, LIMIT_CACHE_TTL_SECONDS - 1,
                          LIMIT_CACHE_TTL_SECONDS}}

NextLimits ==
  \/ \E m \in MOBILES : StartScheduled(StatusThread, m, "7", MaxUpdates)
  \/ ensure_logged_in(StatusThread, {"NOCSRF"})
  \/ get_limits(StatusThread, {})
  \/ fetch_balance_json(StatusThread, {})
  \/ set_limit_and_wait(StatusThread, {})
  \/ Finish(StatusThread)
  \/ Tick(LimitsInstants)
  \/ PortalExpire(LimitsInstants)
  \/ \E m \in MOBILES : PortalApply(m)

SpecLimits == Init /\ [][NextLimits]_vars

\* --------------------------------------------------------- SpecStore
\* Two manual updates started at once in a deployment whose credentials are
\* missing or wrong: each authenticates, fails and reports it, every progress
\* call a read of the whole store followed by a write of the whole store.
InitStore ==
  /\ InitShared
  /\ InitPortal
  /\ creds \in {"missing", "bad"}

NextStore ==
  \/ \E t \in WorkerTIDs, m \in MOBILES : StartSetNow(t, m, "7")
  \/ \E t \in WorkerTIDs : ensure_logged_in(t, {"NOCSRF"})
  \/ \E t \in WorkerTIDs : ProgressRead(t)
  \/ \E t \in WorkerTIDs : ProgressWrite(t)
  \/ \E t \in WorkerTIDs : Finish(t)

SpecStore == InitStore /\ [][NextStore]_vars

\* The threads of the operations keep running: a step a thread can take is
\* taken at some time (the threads are scheduled by the operating system and
\* none waits for another).
StoreSteps ==
  \/ \E t \in WorkerTIDs : ensure_logged_in(t, {"NOCSRF"})
  \/ \E t \in WorkerTIDs : ProgressRead(t)
  \/ \E t \in WorkerTIDs : ProgressWrite(t)
  \/ \E t \in WorkerTIDs : Finish(t)

SpecStoreFair == SpecStore /\ WF_vars(StoreSteps)

\* -------------------------------------------------------------- Spec
\* A home-status operation on worker 1 and a firing of the scheduler on
\* worker 2, running concurrently while the portal keeps the session it has
\* granted: the steps are those of the two operations on that path (no
\* second fetch after a login page, no second load of the login page).
SchedThread == <<2, 0>>

Next ==
  \/ StartStatus(StatusThread, "home")
  \/ \E m \in MOBILES : StartScheduled(SchedThread, m, "7", MaxFirings)
  \/ \E t \in TIDs : EliCheck(t)
  \/ \E t \in TIDs : EliProbe(t, {})
  \/ \E t \in TIDs : EliLoginPage(t, {})
  \/ \E t \in TIDs : EliPost(t, {})
  \/ \E t \in TIDs : EliVerify(t, {})
  \/ \E t \in TIDs : GlCheck(t)
  \/ \E t \in TIDs : GlAnnounce(t)
  \/ \E t \in TIDs : GlFetch(t, {})
  \/ \E t \in TIDs : GlWriteTs(t)
  \/ \E t \in TIDs : GlWriteMap(t)
  \/ \E t \in TIDs : FbGet(t, {})
  \/ \E t \in TIDs : SlAnnounce(t)
  \/ \E t \in TIDs : SlFetch(t, {})
  \/ \E t \in TIDs : SlPost(t, {})
  \/ \E t \in TIDs : SlWriteMap(t)
  \/ \E t \in TIDs : SlWriteTs(t)
  \/ \E t \in TIDs : SlEvict(t)
  \/ \E t \in TIDs : wait_until_done(t, {})
  \/ \E t \in TIDs : SwCache(t)
  \/ \E t \in TIDs : status_worker(t)
  \/ \E t \in TIDs : ProgressCall(t)
  \/ \E t \in TIDs : Finish(t)
  \/ Tick(Instants)
  \/ \E m \in MOBILES : PortalApply(m)

Spec == Init /\ [][Next]_vars

\* ---------------------------------------------------------- SpecPoll
\* wait_until_done on its own, entered as set_limit_and_wait enters it: after
\* a submit_limit_form that found the authenticated timestamp fresh (by one
\* second, or by all but the second that has passed since), with the session
\* the portal granted, which it keeps, and the line's panel pending or not.
\* Time passes while the poll waits for the page of line 596 or sleeps: the
\* clock runs over the multiples of the poll interval up to the timeout and
\* then second by second past it; the thread is scheduled and time passes
\* (fairness).
PollThread == <<1, 0>>
PollLine == 1
PollFaults == {"OUTBOUND_TIMEOUT"}
PollInstants ==
  {StartTime + d : d \in
     {k * POLL_INTERVAL_SECONDS : k \in 1..(POLL_TIMEOUT_SECONDS \div POLL_INTERVAL_SECONDS)}
       \cup (POLL_TIMEOUT_SECONDS..(POLL_TIMEOUT_SECONDS + 2 * POLL_INTERVAL_SECONDS))}

StartPoll(t, m) ==
  /\ thr[t].kind = "idle"
  /\ thr' = [thr EXCEPT ![t] =
       [CallTo(IdleThread, "wu_start", "fin") EXCEPT !.kind = "poll", !.m = m]]
  /\ UNCHANGED <<fnVars, schedVars, now, creds, lastLoginOk, cache, limVars, progVars, portalVars, updRet>>

PollWaiting ==
  thr[PollThread].kind = "poll" /\ thr[PollThread].pc \in {"wu_fetch", "wu_sleep"}

InitPoll ==
  /\ NoFn
  /\ cfgFile = default_config
  /\ now = StartTime
  /\ lastLoginOk \in {StartTime - SESSION_OK_TTL_SECONDS, StartTime - 1}
  /\ InitStores
  /\ creds = "good"
  /\ portalSession = TRUE
  /\ \E b \in BOOLEAN : portalPending = [m \in MOBILES |-> b /\ m = PollLine]
  /\ portalCap = [m \in MOBILES |-> 5]
  /\ portalTarget = [m \in MOBILES |-> IF portalPending[m] THEN 7 ELSE 5]
  /\ expiries = 0

PollStep ==
  \/ EliCheck(PollThread)
  \/ EliProbe(PollThread, PollFaults)
  \/ wait_until_done(PollThread, PollFaults)

PollTick == PollWaiting /\ Tick(PollInstants)

NextPoll ==
  \/ StartPoll(PollThread, PollLine)
  \/ PollStep
  \/ PollTick
  \/ \E m \in MOBILES : PortalApply(m)

SpecPoll == InitPoll /\ [][NextPoll]_vars /\ WF_vars(PollStep) /\ WF_vars(PollTick)

\* --------------------------------------------------------- SpecSched
\* The server processes of a deployment start and end, and serve the two
\* requests that save the schedule matrix.
NextSched ==
  \/ \E p \in Procs : ProcStart(p)
  \/ \E p \in Procs : ProcExit(p)
  \/ \E p \in Procs, f \in SchedForms : matrix_all(p, f)
  \/ \E p \in Procs, m \in MOBILES,
        d \in {<<>>, <<[time |-> <<6, 10, 0, 0>>, value |-> "7"]>>} :
       matrix_copy_defaults(p, m, d)

SpecSched == Init /\ [][NextSched]_vars

\* ---------------------------------------------------------- SpecJobs
\* One server process, which has the scheduler whenever it is up, serving
\* every save of the schedule matrix; the defaults are copied for the first
\* line.
JobsProc == 1

NextJobs ==
  \/ ProcStart(JobsProc)
  \/ ProcExit(JobsProc)
  \/ \E f \in Forms : matrix_all(JobsProc, f)
  \/ \E d \in {<<>>, <<[time |-> <<2, 3, 10, 5, 9>>, value |-> "9"]>>} :
       matrix_copy_defaults(JobsProc, 1, d)

SpecJobs == Init /\ [][NextJobs]_vars

\* -------------------------------------------------------- SpecConfig
\* The schedule file as a deployment may find it (missing, malformed, or a
\* document of any shape), loaded and saved again and again: by load_cfg
\* alone, by save_cfg of a matrix, and by the two requests of the scheduler
\* page in a process that is up.
NoLine ==
  [has_enabled |-> FALSE, enabled |-> FALSE, default |-> <<>>,
   week |-> [d \in DaySet |-> <<>>]]
SixSeven == [time |-> <<6, 10, 0, 0>>, value |-> "7"]
RawLines ==
  {NoLine,
   [has_enabled |-> FALSE, enabled |-> FALSE, default |-> <<SixSeven, SixSeven>>,
    week |-> [d \in DaySet |->
                IF d = "mon" THEN <<SixSeven, EmptySlot, EmptySlot, EmptySlot, SixSeven>>
                ELSE IF d = "tue" THEN <<>>
                ELSE IF d = "sun" THEN <<EmptySlot, SixSeven>>
                ELSE empty_default_row]],
   [has_enabled |-> TRUE, enabled |-> FALSE,
    default |-> <<SixSeven, EmptySlot, EmptySlot, EmptySlot, EmptySlot, SixSeven>>,
    week |-> [d \in DaySet |-> <<EmptySlot, EmptySlot, EmptySlot, SixSeven>>]]}
RawFiles ==
  {[kind |-> k, timezone |-> "", mobiles |-> [m \in MOBILES |-> NoLine]] :
     k \in {"missing", "malformed", "json"}}
    \cup {[kind |-> "json", timezone |-> tz,
            mobiles |-> [m \in MOBILES |-> IF m <= n THEN l ELSE NoLine]] :
             tz \in {"", "UTC"}, l \in RawLines, n \in {1, NumLines}}

\* the matrices save_cfg is called with
Matrices ==
  {FormConfig(default_config, f) :
     f \in {x \in Forms : /\ x.timezone = "UTC" /\ x.lines[1].enabled
                           /\ x.lines[1].default[1] = EmptySlot
                           /\ x.lines[1].week["mon"][1].value = "9"}}

InitConfig ==
  /\ now = StartTime
  /\ lastLoginOk = 0
  /\ InitStores
  /\ InitPortal
  /\ creds = "good"
  /\ cfgFile \in RawFiles
  /\ fnArg = <<>>
  /\ fnRet = <<>>

\* load_cfg(): fnArg keeps what it found in the file, fnRet what it returned
LoadCfg ==
  /\ fnArg' = <<cfgFile>>
  /\ fnRet' = <<load_cfg(cfgFile)>>
  /\ cfgFile' = load_cfg(cfgFile)
  /\ UNCHANGED <<lockHolder, proc, schedOut, now, creds, lastLoginOk, cache, limVars, progVars,
                 thr, portalVars, updRet>>

\* save_cfg(M) (lines 691-695): the matrix becomes the content of the file
SaveCfg(M) ==
  /\ cfgFile' = [M EXCEPT !.kind = "json"]
  /\ UNCHANGED <<fnVars, lockHolder, proc, schedOut, now, creds, lastLoginOk, cache, limVars,
                 progVars, thr, portalVars, updRet>>

NextConfig ==
  \/ LoadCfg
  \/ \E M \in Matrices : SaveCfg(M)
  \/ ProcStart(JobsProc)
  \/ ProcExit(JobsProc)
  \/ \E f \in {x \in SchedForms : x.timezone = ""} : matrix_all(JobsProc, f)
  \/ \E d \in {<<>>, <<SixSeven, EmptySlot, EmptySlot, EmptySlot, SixSeven>>} :
       matrix_copy_defaults(JobsProc, 1, d)

SpecConfig == InitConfig /\ [][NextConfig]_vars

\* ------------------------------------------------------- SpecCfgRace
\* A load_cfg of some thread (a status worker, an update, a page) taken step
\* by step, its read of the file and its save of what it read, while the
\* scheduler page saves the matrix in a process that is up.
\* lines 701-709: the file is read and parsed; fnArg keeps the document
LoadRead ==
  /\ fnArg = <<>>
  /\ fnArg' = <<cfgFile>>
  /\ UNCHANGED <<fnRet, schedVars, now, creds, lastLoginOk, cache, limVars, progVars,
                 thr, portalVars, updRet>>

\* lines 710-715: the document is shaped, saved and returned
LoadResave ==
  /\ fnArg # <<>>
  /\ cfgFile' = load_cfg(fnArg[1])
  /\ fnRet' = <<load_cfg(fnArg[1])>>
  /\ fnArg' = <<>>
  /\ UNCHANGED <<lockHolder, proc, schedOut, now, creds, lastLoginOk, cache, limVars, progVars,
                 thr, portalVars, updRet>>

NextCfgRace ==
  \/ LoadRead
  \/ LoadResave
  \/ ProcStart(JobsProc)
  \/ ProcExit(JobsProc)
  \/ \E f \in SchedForms : matrix_all(JobsProc, f)
  \/ \E d \in {<<>>, <<SixSeven>>} : matrix_copy_defaults(JobsProc, 1, d)

\* the file holds the well-shaped matrix of a first start
InitCfgRace ==
  /\ now = StartTime
  /\ lastLoginOk = 0
  /\ InitStores
  /\ InitPortal
  /\ creds = "good"
  /\ cfgFile = load_cfg(default_config)
  /\ fnArg = <<>>
  /\ fnRet = <<>>

SpecCfgRace == InitCfgRace /\ [][NextCfgRace]_vars

\* ------------------------------------------------------- SpecRebuild
\* The scheduler process while the matrix is saved and the due times of the
\* first Monday slot of line 1 arrive: reload_jobs step by step, its removal
\* of every job and its adding of the jobs of the file, with the scheduler's
\* own thread looking for due jobs in between.  fnArg is <<had>> while a
\* rebuild is under way (had: the slot's job was there before the removal);
\* fnRet is the list of the due times that have come, each with whether the
\* job was run and whether a rebuild had kept the slot as it was.
DueSlot == <<1, "mon", 0>>

\* matrix_all up to its save (lines 1323-1349), then reload_jobs up to the
\* removal of the jobs (lines 810-811)
SaveAndRemove(p, f) ==
  /\ fnArg = <<>>
  /\ proc[p].sched
  /\ cfgFile' = load_cfg(FormConfig(load_cfg(cfgFile), f))
  /\ fnArg' = <<\E j \in proc[p].jobs : j.id = DueSlot>>
  /\ proc' = [proc EXCEPT ![p].jobs = {}]
  /\ UNCHANGED <<fnRet, lockHolder, schedOut, now, creds, lastLoginOk, cache, limVars,
                 progVars, thr, portalVars, updRet>>

\* reload_jobs from its load_cfg on (lines 813-841): add_job gives every job
\* its next run time after the present instant
AddJobs(p) ==
  /\ fnArg # <<>>
  /\ cfgFile' = load_cfg(cfgFile)
  /\ proc' = [proc EXCEPT ![p] = reload_jobs(proc[p], cfgFile')]
  /\ fnArg' = <<>>
  /\ UNCHANGED <<fnRet, lockHolder, schedOut, now, creds, lastLoginOk, cache, limVars,
                 progVars, thr, portalVars, updRet>>

\* A due time of the slot, populated in the file for a line that is switched
\* on, in the zone of the file, arrives: the scheduler runs the jobs it holds that are due
\* (run_scheduled_set, line 844)
SlotDue(p) ==
  /\ proc[p].sched
  /\ Len(fnRet) < MaxFirings
  /\ LET cfg == load_cfg(cfgFile)
     IN /\ KnownZone(cfg.timezone)
        /\ cfg.mobiles[DueSlot[1]].enabled
        /\ Schedulable(cfg.mobiles[DueSlot[1]].week[DueSlot[2]][DueSlot[3] + 1])
  /\ fnRet' = Append(fnRet, [run |-> \E j \in proc[p].jobs : j.id = DueSlot,
                             kept |-> fnArg = <<>> \/ fnArg[1]])
  /\ UNCHANGED <<fnArg, schedVars, now, creds, lastLoginOk, cache, limVars, progVars,
                 thr, portalVars, updRet>>

NextRebuild ==
  \/ fnArg = <<>> /\ ProcStart(JobsProc)
  \/ fnArg = <<>> /\ ProcExit(JobsProc)
  \/ \E f \in SchedForms : SaveAndRemove(JobsProc, f)
  \/ AddJobs(JobsProc)
  \/ SlotDue(JobsProc)

SpecRebuild == InitCfgRace /\ [][NextRebuild]_vars

\* ------------------------------------------------------- SpecBalance
\* One caller running fetch_balance_json again and again, for any line,
\* while the portal ends a session now and then, answers with an error
\* status, with a body that is no JSON or with a login page without token.
BalThread == <<1, 0>>
BalFaults == {"HTTP_5XX", "JUNK", "NOCSRF"}

StartBalCall(t, m) ==
  /\ thr[t].kind \in {"idle", "bal"} /\ thr[t].pc \in {"idle", "fin"}
  /\ thr[t].ncalls < MaxCalls
  /\ thr' = [thr EXCEPT ![t] =
       [CallTo(IdleThread, "fb_get", "fin") EXCEPT
          !.kind = "bal", !.m = m, !.ncalls = thr[t].ncalls + 1,
          !.call = [NoCall EXCEPT !.st = "run", !.start = now, !.ts0 = lastLoginOk]]]
  /\ UNCHANGED <<fnVars, schedVars, now, creds, lastLoginOk, cache, limVars, progVars, portalVars, updRet>>

NextBalance ==
  \/ \E m \in MOBILES : StartBalCall(BalThread, m)
  \/ fetch_balance_json(BalThread, BalFaults)
  \/ ensure_logged_in(BalThread, BalFaults)
  \/ Tick(Instants)
  \/ PortalExpire(Instants)

SpecBalance == InitAuth /\ [][NextBalance]_vars

\* ------------------------------------------------------- SpecClassify
\* A function under study: its arguments are drawn from args, and nothing has
\* been returned yet.
InitFn(args) ==
  /\ now = StartTime
  /\ lastLoginOk = 0
  /\ InitStores
  /\ cfgFile = default_config
  /\ InitPortal
  /\ creds = "good"
  /\ fnArg \in args
  /\ fnRet = <<>>

\* the function returns r
Returns(r) ==
  /\ fnRet = <<>>
  /\ fnRet' = <<r>>
  /\ UNCHANGED <<fnArg, schedVars, now, creds, lastLoginOk, cache, limVars, progVars,
                 thr, portalVars, updRet>>

\* The failures of a request: an exception of the requests library with its
\* text, or a response with its status.
ExcTexts ==
  {<<>>,
   Words(<<"name", "or", "service", "not", "known">>, {1}),
   Words(<<"max", "retries", "exceeded", "failed", "to", "resolve", "host">>, {1, 4}),
   Words(<<"temporary", "failure", "in", "name", "resolution">>, {1}),
   Words(<<"getaddrinfo", "failed">>, {}),
   Words(<<"nodename", "nor", "servname", "provided">>, {}),
   Words(<<"name", "not", "known">>, {1}),
   Words(<<"failed", "to", "connect">>, {1}),
   Words(<<"connection", "refused">>, {1}),
   Words(<<"connection", "reset", "by", "peer">>, {1})}
ExcClasses ==
  {"SSLError", "ConnectTimeout", "ReadTimeout", "ConnectionError", "ProxyError",
   "TooManyRedirects", "ChunkedEncodingError"}
Statuses == {200, 302, 399} \cup (400..420) \cup (495..505) \cup (595..605)
ClassifyArgs ==
  [kind : {"exc"}, cls : ExcClasses, text : ExcTexts, status : {0}]
    \cup [kind : {"http"}, cls : {""}, text : {<<>>}, status : Statuses]

\* _http_get, the request raised e (lines 223-225): the UpstreamError raised
HttpGetRaised ==
  /\ fnArg.kind = "exc"
  /\ Returns(_classify_request_exception(fnArg))

\* the request was answered and _raise_if_http_error is called on the answer
HttpAnswered ==
  /\ fnArg.kind = "http"
  /\ Returns(_raise_if_http_error(fnArg.status))

NextClassify == HttpGetRaised \/ HttpAnswered

SpecClassify == InitFn(ClassifyArgs) /\ [][NextClassify]_vars

\* ---------------------------------------------------- SpecNextChange
\* get_next_scheduled_change (lines 725-770) for a line of the configuration
\* at an instant of the zone: now.weekday() (0 = Monday) and the minute of
\* the day. An instant dt is counted in minutes from the midnight that began
\* today, in a zone whose offset does not change within the week.
WindowDays == 7

\* lines 718-722: two decimals for a number, the text itself otherwise
format_gb_value(value) ==
  IF ParseFloat(value) # None THEN ToString(ParseFloat(value)) \o ".00" ELSE value

\* strftime("%a %d %b %H:%M") of the instant dt (line 768): the weekday, the
\* date as days after today, the hour and the minute
Label(weekday, dt) ==
  [a |-> DAYS[((weekday + (dt \div (24 * 60))) % 7) + 1], date |-> dt \div (24 * 60),
   H |-> (dt % (24 * 60)) \div 60, M |-> dt % 60]

\* lines 739-757: the slots the loops get as far as building a datetime for,
\* each with the date of its day (lines 743-744) and its hour and minute
Timed(mcfg, weekday) ==
  {[day_offset |-> (WEEKDAY_INDEX(d) - weekday) % 7, i |-> i,
    hh |-> int(SplitTime(mcfg.week[d][i].time).hh),
    mm |-> int(SplitTime(mcfg.week[d][i].time).mm),
    value |-> mcfg.week[d][i].value] :
     <<d, i>> \in {x \in DaySet \X (1..SlotsPerRow) : Schedulable(mcfg.week[x[1]][x[2]])}}

\* line 759: the instant of the slot on the date of its day
At(c) == c.day_offset * 24 * 60 + c.hh * 60 + c.mm

NoChange == [raised |-> FALSE, change |-> <<>>]

\* lines 725-770; datetime() (line 759) raises ValueError for an hour above
\* 23 or a minute above 59 and nothing catches it; of two slots at one
\* instant the first in the row is kept (line 764)
get_next_scheduled_change(mcfg, weekday, minute) ==
  IF ~(mcfg.has_enabled /\ mcfg.enabled) THEN NoChange
  ELSE IF \E c \in Timed(mcfg, weekday) : c.hh > 23 \/ c.mm > 59
       THEN [raised |-> TRUE, change |-> <<>>]
  ELSE LET inWindow == {c \in Timed(mcfg, weekday) :
                          ~(At(c) <= minute \/ At(c) > minute + WindowDays * 24 * 60)}
       IN IF inWindow = {} THEN NoChange
          ELSE LET best == CHOOSE c \in inWindow :
                             \A o \in inWindow :
                               At(c) < At(o) \/ (At(c) = At(o) /\ c.i <= o.i)
               IN [raised |-> FALSE,
                   change |-> <<[next_change_label |-> Label(weekday, At(best)),
                                 next_change_gb |-> format_gb_value(best.value)]>>]

\* slots put into a week: a day, a place in its row, the slot
Placements ==
  {<<"mon", 1, [time |-> <<6, 10, 0, 0>>, value |-> "7"]>>,
   <<"mon", 2, [time |-> <<0, 8, 10, 0, 0>>, value |-> "9"]>>,
   <<"mon", 3, [time |-> <<0, 8, 10, 0, 0>>, value |-> "max"]>>,
   <<"wed", 1, [time |-> <<6, 10, 0, 0>>, value |-> "9"]>>,
   <<"sun", 4, [time |-> <<2, 3, 10, 5, 9>>, value |-> "7"]>>,
   <<"tue", 1, [time |-> <<6, 0, 0>>, value |-> "7"]>>,
   <<"tue", 2, [time |-> <<6, 10, 0, 0>>, value |-> ""]>>,
   <<"sat", 1, [time |-> <<2, 4, 10, 0, 0>>, value |-> "7"]>>}

WeekOf(ps) ==
  [d \in DaySet |->
     [i \in 1..SlotsPerRow |->
        IF \E p \in ps : p[1] = d /\ p[2] = i
        THEN (CHOOSE p \in ps : p[1] = d /\ p[2] = i)[3] ELSE EmptySlot]]

\* a line with at most two slots in its week, on a Monday, a Wednesday or a
\* Sunday at 6:00 or at 8:00
NextChangeArgs ==
  {[mcfg |-> [has_enabled |-> TRUE, enabled |-> on, default |-> empty_default_row,
              week |-> WeekOf(ps)],
    weekday |-> wd, minute |-> hm] :
     on \in BOOLEAN, wd \in {0, 2, 6}, hm \in {6 * 60, 8 * 60},
     ps \in {x \in SUBSET Placements : Cardinality(x) <= 2}}

NextNextChange ==
  Returns(get_next_scheduled_change(fnArg.mcfg, fnArg.weekday, fnArg.minute))

SpecNextChange == InitFn(NextChangeArgs) /\ [][NextNextChange]_vars

\* ---------------------------------------------------------- SpecLine
\* The display line of a line for a cap and a balance document.
\* _mb_to_gb (lines 111-116): the value as a number over 1024, 0.0 when it
\* is no number
_mb_to_gb(mb_str) ==
  CASE mb_str = "1024" -> 1
    [] mb_str = "3072" -> 3
    [] mb_str = "5120" -> 5
    [] OTHER -> 0

\* lines 446-463: the list under resource_items, or under RESOURCE_BALANCE
\* when that one is missing or empty; the value of the last item of each
\* name counts, a name of the remaining data before one of the counter; an
\* item's value is <<>> when it has none
_extract_balance_items(js) ==
  LET items == IF js.resource_items # <<>> THEN js.resource_items ELSE js.RESOURCE_BALANCE
      isRem(i) == Contains(Lower(items[i].plan_name), Words(<<"plan", "data", "remaining">>, {}))
      isUsed(i) == ~isRem(i)
                     /\ Contains(Lower(items[i].plan_name), Words(<<"data", "usage", "counter">>, {}))
      last(S) == CHOOSE i \in S : \A j \in S : j <= i
      rems == {i \in 1..Len(items) : isRem(i)}
      useds == {i \in 1..Len(items) : isUsed(i)}
      remaining_mb == IF rems = {} THEN <<>> ELSE items[last(rems)].value
      used_mb == IF useds = {} THEN <<>> ELSE items[last(useds)].value
  IN [rem |-> IF remaining_mb = <<>> THEN None ELSE _mb_to_gb(remaining_mb[1]),
      used |-> IF used_mb = <<>> THEN None ELSE _mb_to_gb(used_mb[1]),
      err |-> ""]

\* items of a balance document
BalanceItems ==
  {[plan_name |-> Words(<<"plan", "data", "remaining">>, {1, 2, 3}), value |-> <<"3072">>],
   [plan_name |-> Words(<<"plan", "data", "remaining">>, {1}), value |-> <<>>],
   [plan_name |-> Words(<<"data", "usage", "counter">>, {1, 2, 3}), value |-> <<"1024">>],
   [plan_name |-> Words(<<"monthly", "data", "usage", "counter">>, {}), value |-> <<"5120">>],
   [plan_name |-> Words(<<"data", "usage", "counter">>, {}), value |-> <<"n/a">>],
   [plan_name |-> Words(<<"data", "usage", "counter">>, {}), value |-> <<>>],
   [plan_name |-> Words(<<"bonus", "data">>, {1}), value |-> <<"1024">>]}

\* a cap of line 1 (not in the mapping, unknown, 0, 1, 3 or 5 GB) and a
\* document with up to two items under one of the two keys
LineArgs ==
  {[lim |-> lim, js |-> js] :
     lim \in {Absent, None, 0, 1, 3, 5},
     js \in {[resource_items |-> IF low THEN its ELSE <<>>,
              RESOURCE_BALANCE |-> IF low THEN <<>> ELSE its] :
               low \in BOOLEAN,
               its \in {<<>>} \cup {<<a>> : a \in BalanceItems}
                         \cup {<<a, b>> : a \in BalanceItems, b \in BalanceItems}}}

NextLine ==
  Returns(build_line_for_mobile(1, [m \in MOBILES |-> fnArg.lim],
                                _extract_balance_items(fnArg.js)))

SpecLine == InitFn(LineArgs) /\ [][NextLine]_vars

\* -------------------------------------------------------- SpecSubmit
\* One submit_limit_form call in a process whose caches are empty or were
\* filled by an earlier status load, with or without a session, while the
\* clock moves and the portal may end the session; fnArg keeps the caches as
\* they were when the call began.
SubmitThread == <<1, 0>>
SubmitFaults == {"DNS_FAIL", "HTTP_5XX", "SHAPE", "NOCSRF"}
SubmitInstants == {StartTime + 1, StartTime + 2}

InitSubmit ==
  /\ now = StartTime
  /\ lastLoginOk \in {0, StartTime - 1}
  /\ creds \in {"missing", "bad", "good"}
  /\ portalSession \in BOOLEAN
  /\ portalCap = [m \in MOBILES |-> 5]
  /\ portalPending = [m \in MOBILES |-> FALSE]
  /\ portalTarget = [m \in MOBILES |-> 5]
  /\ expiries = 0
  /\ lockHolder = NoProc
  /\ proc = [p \in Procs |-> [up |-> FALSE, sched |-> FALSE, jobs |-> {}]]
  /\ schedOut = <<>>
  /\ cfgFile = default_config
  /\ \E filled \in BOOLEAN :
       cache = [m \in MOBILES |->
                  IF filled
                    THEN [present |-> TRUE, ts |-> StartTime - 1,
                          line |-> [lim |-> 5, used |-> 1, rem |-> 4],
                          status |-> "time", error_code |-> "", error_ts |-> None]
                    ELSE NoEntry]
  /\ \E known \in BOOLEAN :
       /\ limMap = IF known THEN [m \in MOBILES |-> 5] ELSE NoLimits
       /\ limTs = IF known THEN StartTime - 1 ELSE 0
  /\ limObt = [m \in MOBILES |-> None]
  /\ limTsW = <<0, 0>>
  /\ limMapW = <<0, 0>>
  /\ progress = [o \in OpIds |-> [present |-> FALSE, msg |-> <<"", 0>>, seq |-> 0,
                                  done |-> FALSE, ok |-> FALSE, result |-> NoResult]]
  /\ nextOp = 0
  /\ writers = {}
  /\ thr = [t \in TIDs |-> IdleThread]
  /\ updRet = [m \in MOBILES |-> NoUpdate]
  /\ fnArg = <<>>
  /\ fnRet = <<>>

\* submit_limit_form(mobile, value) is called (line 538)
StartSubmit(t, m, v) ==
  /\ fnArg = <<>>
  /\ thr[t].pc = "idle"
  /\ thr' = [thr EXCEPT ![t] =
       [IdleThread EXCEPT !.kind = "submit", !.m = m, !.v = v,
                          !.pc = "eli_check", !.stack = <<"sl_load", "fin">>]]
  /\ fnArg' = <<[cache |-> cache, limits |-> limMap, ts |-> limTs]>>
  /\ UNCHANGED <<fnRet, schedVars, now, creds, lastLoginOk, cache, limVars, progVars,
                 portalVars, updRet>>

NextSubmit ==
  \/ \E m \in MOBILES, v \in {"7", "max"} : StartSubmit(SubmitThread, m, v)
  \/ ensure_logged_in(SubmitThread, SubmitFaults)
  \/ submit_limit_form(SubmitThread, SubmitFaults)
  \/ Tick(SubmitInstants)
  \/ PortalExpire(SubmitInstants)

SpecSubmit == InitSubmit /\ [][NextSubmit]_vars

\* ------------------------------------------------------- SpecBadSlot
\* The scheduler process while the scheduler page is saved with a slot whose
\* time has two numbers but is no time of the day (24:00, 6:75), which
\* matrix_all stores as it comes, and the next change of a line is asked for
\* on a Monday at 8:00; fnArg keeps the line asked about, fnRet the answer.
BadSlots ==
  {[time |-> <<2, 4, 10, 0, 0>>, value |-> "7"], [time |-> <<6, 10, 7, 5>>, value |-> "9"]}

BadForms ==
  LET base == {Form("", on, EmptySlot, DaySet \X {0}, SixSeven) : on \in {{1}, MOBILES}}
  IN base \cup
     {[f EXCEPT !.lines[x[1]].week[x[2]][x[3] + 1] = b] :
        f \in base, b \in BadSlots,
        x \in {<<1, "mon", 1>>, <<1, "tue", 0>>, <<NumLines, "sun", 3>>}}

\* lines 876-883, 1177-1180: the next change of line m of the file
NextChangeOf(m) ==
  /\ fnArg' = <<[mcfg |-> load_cfg(cfgFile).mobiles[m], weekday |-> 0, minute |-> 8 * 60]>>
  /\ fnRet' = <<get_next_scheduled_change(load_cfg(cfgFile).mobiles[m], 0, 8 * 60)>>
  /\ cfgFile' = load_cfg(cfgFile)
  /\ UNCHANGED <<lockHolder, proc, schedOut, now, creds, lastLoginOk, cache, limVars,
                 progVars, thr, portalVars, updRet>>

NextBadSlot ==
  \/ ProcStart(JobsProc)
  \/ ProcExit(JobsProc)
  \/ \E f \in BadForms : matrix_all(JobsProc, f)
  \/ \E m \in MOBILES : NextChangeOf(m)

SpecBadSlot == InitCfgRace /\ [][NextBadSlot]_vars

\* ---------------------------------------------------------- SpecHome
\* One home-status load or refresh whose pooled balance fetches meet a portal
\* that is not to be reached, is unavailable or answers with a body that is
\* no JSON, for any of the lines; the session obtained for the limits lasts.
HomeThread == <<1, 0>>
HomeFaults == {"DNS_FAIL", "HTTP_5XX", "JUNK"}
HomeRow == {t \in TIDs : t[1] = HomeThread[1]}

NextHome ==
  \/ \E kind \in {"home", "refresh"} : nextOp = 0 /\ StartStatus(HomeThread, kind)
  \/ EliCheck(HomeThread)
  \/ EliProbe(HomeThread, {})
  \/ EliLoginPage(HomeThread, {})
  \/ EliPost(HomeThread, {})
  \/ EliVerify(HomeThread, {})
  \/ GlCheck(HomeThread)
  \/ GlAnnounce(HomeThread)
  \/ GlFetch(HomeThread, {})
  \/ GlWriteTs(HomeThread)
  \/ GlWriteMap(HomeThread)
  \/ \E t \in HomeRow : FbGet(t, HomeFaults)
  \/ status_worker(HomeThread)
  \/ ProgressCall(HomeThread)
  \/ Finish(HomeThread)

SpecHome == Init /\ [][NextHome]_vars

\* ------------------------------------------------------ SpecSnapshot
\* One home-status load or refresh on worker 1 while a cap update on worker
\* 2, its form located, posts the form and writes the requested cap into
\* the shared caps, before, between or after any steps of the status
\* operation.
CapWriter == <<2, 0>>

\* submit_limit_form at its POST (line 577), once
StartCapWrite(t, m, v) ==
  /\ thr[t].pc = "idle" /\ thr[t].ncalls = 0
  /\ thr' = [thr EXCEPT ![t] =
       [IdleThread EXCEPT !.kind = "submit", !.m = m, !.v = v, !.ncalls = 1,
                          !.pc = "sl_post", !.stack = <<"fin">>]]
  /\ UNCHANGED <<fnVars, schedVars, now, creds, lastLoginOk, cache, limVars, progVars,
                 portalVars, updRet>>

NextSnapshot ==
  \/ \E kind \in {"home", "refresh"} : nextOp = 0 /\ StartStatus(HomeThread, kind)
  \/ StartCapWrite(CapWriter, 1, "7")
  \/ SlPost(CapWriter, {})
  \/ SlWriteMap(CapWriter)
  \/ SlWriteTs(CapWriter)
  \/ SlEvict(CapWriter)
  \/ EliCheck(HomeThread)
  \/ EliProbe(HomeThread, {})
  \/ EliLoginPage(HomeThread, {})
  \/ EliPost(HomeThread, {})
  \/ EliVerify(HomeThread, {})
  \/ GlCheck(HomeThread)
  \/ GlAnnounce(HomeThread)
  \/ GlFetch(HomeThread, {})
  \/ GlWriteTs(HomeThread)
  \/ GlWriteMap(HomeThread)
  \/ \E t \in HomeRow : FbGet(t, {})
  \/ status_worker(HomeThread)
  \/ ProgressCall(HomeThread)
  \/ \E t \in {HomeThread, CapWriter} : Finish(t)

SpecSnapshot == Init /\ [][NextSnapshot]_vars

\* ------------------------------------------------------- SpecRelogin
\* One home-status load or refresh whose portal session may end at two
\* later instants: after ensure_logged_in and before the overview fetch, and
\* again after the forced login and before the overview is fetched again;
\* the login page may come without its token.
ReloginInstants == {StartTime + d : d \in 1..MaxExpiries}

NextRelogin ==
  \/ \E kind \in {"home", "refresh"} : nextOp = 0 /\ StartStatus(HomeThread, kind)
  \/ ensure_logged_in(HomeThread, {"NOCSRF"})
  \/ get_limits(HomeThread, {})
  \/ \E t \in HomeRow : FbGet(t, {})
  \/ status_worker(HomeThread)
  \/ ProgressCall(HomeThread)
  \/ Finish(HomeThread)
  \/ PortalExpire(ReloginInstants)

SpecRelogin == Init /\ [][NextRelogin]_vars

\* ----------------------------------------------------------- SpecOps
\* One interactive operation (home-status load, refresh or manual update)
\* whose worker meets a portal that is not to be reached, refuses, is
\* unavailable, or serves pages without the login token or without the
\* line's panel or form, in a
\* deployment with or without working credentials; the portal may end the
\* session once.
OpsThread == <<1, 0>>
OpsFaults == {"DNS_FAIL", "HTTP_403", "HTTP_5XX", "SHAPE", "NOCSRF"}
OpsRow == {t \in TIDs : t[1] = OpsThread[1]}

InitOps ==
  /\ InitShared
  /\ InitPortal
  /\ creds \in {"missing", "bad", "good"}

NextOps ==
  \/ \E kind \in {"home", "refresh"} : nextOp = 0 /\ StartStatus(OpsThread, kind)
  \/ \E m \in MOBILES : nextOp = 0 /\ StartSetNow(OpsThread, m, "7")
  \/ \E t \in OpsRow : ensure_logged_in(t, IF t = OpsThread THEN OpsFaults ELSE {})
  \/ get_limits(OpsThread, OpsFaults)
  \/ \E t \in OpsRow : fetch_balance_json(t, IF t = OpsThread THEN OpsFaults ELSE {})
  \/ set_limit_and_wait(OpsThread, OpsFaults)
  \/ status_worker(OpsThread)
  \/ ProgressCall(OpsThread)
  \/ Finish(OpsThread)
  \/ Tick(Instants)
  \/ PortalExpire(Instants)
  \/ \E m \in MOBILES : PortalApply(m)

SpecOps == InitOps /\ [][NextOps]_vars

\* ---------------------------------------------------------- SpecFire
\* One process with the scheduler, a matrix with a job for every line, and
\* the firings of these jobs one after the other while the portal ends a
\* session now and then or serves a login page without its token.
FireProc == 1
FireThread == <<1, 0>>
FireForms ==
  {f \in SchedForms : /\ f.timezone = ""
                 /\ \A m \in MOBILES :
                      /\ f.lines[m].enabled /\ Schedulable(f.lines[m].week["mon"][1])
                      /\ f.lines[m].default[1].time = <<>>}

NextFire ==
  \/ ProcStart(FireProc)
  \/ \E f \in FireForms : matrix_all(FireProc, f)
  \/ \E m \in MOBILES : Fire(FireProc, FireThread, m)
  \/ ensure_logged_in(FireThread, {"NOCSRF"})
  \/ submit_limit_form(FireThread, {})
  \/ wait_until_done(FireThread, {})
  \/ GlCheck(FireThread)
  \/ fetch_balance_json(FireThread, {})
  \/ SwCache(FireThread)
  \/ run_scheduled_set_end(FireThread)
  \/ Tick(Instants)
  \/ PortalExpire(Instants)
  \/ \E m \in MOBILES : PortalApply(m)

SpecFire == Init /\ [][NextFire]_vars

\* -------------------------------------------------------- SpecSetNow
\* Manual updates (api_set_now_start) one after the other, each polled to
\* its end or past its timeout, while the portal applies the change or does
\* not and ends a session now and then.
SetNowThread == <<1, 0>>
SetNowInstants ==
  {StartTime + d : d \in {POLL_INTERVAL_SECONDS,
                          POLL_TIMEOUT_SECONDS + POLL_INTERVAL_SECONDS}}

NextSetNow ==
  \/ \E m \in MOBILES : StartSetNow(SetNowThread, m, "7")
  \/ ensure_logged_in(SetNowThread, {"NOCSRF"})
  \/ submit_limit_form(SetNowThread, {})
  \/ wait_until_done(SetNowThread, {})
  \/ GlCheck(SetNowThread)
  \/ fetch_balance_json(SetNowThread, {})
  \/ SwCache(SetNowThread)
  \/ ProgressCall(SetNowThread)
  \/ Finish(SetNowThread)
  \/ Tick(SetNowInstants)
  \/ PortalExpire(SetNowInstants)
  \/ \E m \in MOBILES : PortalApply(m)

SpecSetNow == Init /\ [][NextSetNow]_vars

\* ============================================================ properties

\* C1 (Spec): once set_limit_and_wait(L, v) has returned with the change
\* applied, a cache_get(L) made within CACHE_TTL_SECONDS returns a display
\* line whose Limit field is v, whatever else ran or runs.
C1_EvictionInvariant ==
  \A m \in MOBILES :
    (/\ updRet[m].v # Absent /\ updRet[m].v # None
     /\ updRet[m].done
     /\ now - updRet[m].at < CACHE_TTL_SECONDS)
    => /\ cache_get(m) # NoEntry
       /\ cache_get(m).line.lim = updRet[m].v

\* C2 (SpecStore): a progress record whose done is true is never changed by
\* a later write, also while other operations write their own progress.
C2_DoneIsTerminal ==
  [][\A o \in OpIds :
       (progress[o].present /\ progress[o].done) => progress'[o] = progress[o]]_vars

\* C3 (SpecProgress): the sequenceNumber of a record never decreases, and it
\* is strictly larger whenever the record's message has been updated.
C3_SeqMonotonic ==
  [][\A o \in OpIds :
       progress[o].present =>
         /\ progress'[o].seq >= progress[o].seq
         /\ (progress'[o].msg # progress[o].msg => progress'[o].seq > progress[o].seq)]_vars

\* C4 (SpecProgress): only the operation's own worker thread writes the
\* record of its operation id; the pooled balance-fetch threads never do.
C4_SingleWriter ==
  \A w \in writers : w[2][2] = 0

\* C5 (SpecLimits): cache_get(L) returns the entry written at w exactly when
\* now - w < CACHE_TTL_SECONDS, and None otherwise (at the TTL too, when
\* nothing was written, when the entry was evicted).
C5_CacheTtl ==
  \A m \in MOBILES :
    (cache_get(m) # NoEntry) <=>
      (cache[m].present /\ now - cache[m].ts < CACHE_TTL_SECONDS)

\* C6 (SpecLimits): get_limits(force=False) never answers from the shared cap
\* cache with a value of any line that was obtained LIMIT_CACHE_TTL_SECONDS
\* or more earlier.
C6_LimitCacheTtl ==
  \A t \in TIDs :
    (Ready(t, "gl_check") /\ CacheHitLimits(thr[t].force)) =>
      \A m \in MOBILES :
        limMap[m] # Absent => now - limObt[m] < LIMIT_CACHE_TTL_SECONDS

\* C7 (SpecLimits): once populated, the shared cap cache has an entry for
\* every line, and every mapping get_limits has returned has a key for every
\* line.
C7_LimitCacheComplete ==
  /\ (\E m \in MOBILES : limMap[m] # Absent) => (\A m \in MOBILES : limMap[m] # Absent)
  /\ \A t \in TIDs :
       (\E m \in MOBILES : thr[t].limits[m] # Absent)
         => (\A m \in MOBILES : thr[t].limits[m] # Absent)

\* C8 (Spec): no two threads are at once in the middle of a write of the
\* shared cap cache (between the write of its timestamp and the write of its
\* mapping), and no reader answering from it sees a timestamp and a mapping
\* that come from two different writes.
C8_MutualExclusion ==
  /\ \A t1 \in TIDs, t2 \in TIDs :
       (/\ thr[t1].pc \in {"gl_write_map", "sl_write_ts"}
        /\ thr[t2].pc \in {"gl_write_map", "sl_write_ts"}) => t1 = t2
  /\ \A t \in TIDs :
       (Ready(t, "gl_check") /\ CacheHitLimits(thr[t].force)) => limTsW = limMapW

\* C9 as stated (SpecAuth): two consecutive ensure_logged_in calls, the
\* second started within SESSION_OK_TTL_SECONDS of the first, issue at most
\* one request together.
C9_AtMostOneRequest ==
  LET c == thr[AuthThread].call
      p == thr[AuthThread].prev
  IN (/\ p.st \in {"ok", "fail"}
      /\ c.st \in {"ok", "fail"}
      /\ c.start - p.start < SESSION_OK_TTL_SECONDS)
     => p.reqs + c.reqs <= 1

\* C9 amended (SpecAuth): when an ensure_logged_in call has returned after
\* issuing at least one request (so it recorded the authentication), the
\* next call, started less than SESSION_OK_TTL_SECONDS after that return,
\* issues no request at all.
C9_SecondCallIssuesNone ==
  LET c == thr[AuthThread].call
      p == thr[AuthThread].prev
  IN (/\ p.st = "ok" /\ p.reqs >= 1
      /\ c.st # "none"
      /\ c.start - p.end < SESSION_OK_TTL_SECONDS)
     => c.reqs = 0

\* C9, its case: a call that logged in with several requests, and the next
\* call made one second before the window closes, returned without any.
C9_Witness ==
  LET c == thr[AuthThread].call
      p == thr[AuthThread].prev
  IN /\ p.st = "ok" /\ p.reqs > 1
     /\ c.st = "ok" /\ c.reqs = 0
     /\ c.start - p.end = SESSION_OK_TTL_SECONDS - 1

\* C10 (SpecLimits): whenever get_limits, submit_limit_form or an iteration
\* of wait_until_done receives a login page for its overview fetch, that
\* step clears _LAST_LOGIN_OK_TS.
C10_LoginPageClearsTimestamp ==
  [][\A t \in TIDs :
       (/\ thr[t].pc \in {"gl_fetch", "sl_fetch", "wu_fetch"}
        /\ thr[t].pq = <<>>
        /\ thr'[t] # thr[t]
        /\ thr'[t].resp = "login")
       => lastLoginOk' = 0]_vars

\* C11 (SpecAuth): ensure_logged_in writes the authenticated timestamp only
\* in the step in which it received an overview page that is not a login
\* page, and writes the current time; a verification fetch answered by a
\* login page ends the call with LOGIN_FAILED; and when the call has failed
\* the timestamp has the value it had when the call began.
C11_TimestampOnlyAfterOverview ==
  [][LET c2 == thr'[AuthThread].call
         stepped == thr'[AuthThread] # thr[AuthThread]
     IN /\ lastLoginOk' # lastLoginOk =>
             /\ lastLoginOk' = now
             /\ thr[AuthThread].pc \in {"eli_probe", "eli_verify"}
             /\ portalSession
             /\ c2.st = "ok"
        /\ (thr[AuthThread].pc = "eli_verify" /\ stepped /\ ~portalSession) =>
             /\ c2.st = "fail"
             /\ thr'[AuthThread].err \in {"LOGIN_FAILED"} \cup (AuthErrors \ {"NOCSRF"})
        /\ (stepped /\ thr'[AuthThread].err = "LOGIN_FAILED") =>
             (thr[AuthThread].pc = "eli_verify" /\ ~portalSession)
        /\ (thr[AuthThread].call.st = "run" /\ c2.st = "fail") =>
             /\ lastLoginOk' = c2.ts0
             /\ thr'[AuthThread].err \in
                  {"LOGIN_FAILED", "LOGIN_CSRF_MISSING", "MISSING_CREDS"}
                    \cup (AuthErrors \ {"NOCSRF"})]_vars

\* C11, its case: a call that followed a successful one failed with
\* LOGIN_FAILED and left the timestamp of the earlier login in place.
C11_Witness ==
  /\ thr[AuthThread].call.st = "fail"
  /\ thr[AuthThread].err = "LOGIN_FAILED"
  /\ thr[AuthThread].call.ts0 > 0
  /\ lastLoginOk = thr[AuthThread].call.ts0

\* C12 (SpecAuth): the credential POST is issued only after the probe was
\* answered by a login page, a CSRF token was found on the login page within
\* two fetches, and with both credentials present; two login pages without a
\* token end the call with LOGIN_CSRF_MISSING and a missing credential ends it
\* with MISSING_CREDS, in both cases without a POST.
C12_HandshakeOrder ==
  LET c == IF thr[AuthThread].pc = "eli_check" THEN NoCall ELSE thr[AuthThread].call
      log == c.log
      n == Len(log)
      posts == {i \in 1..n : log[i] \in {"post", "post_err"}}
      pages(i) == {j \in 1..(i - 1) : log[j] \in {"lp_csrf", "lp_nocsrf", "lp_err"}}
  IN /\ \A i \in posts :
          /\ log[1] = "probe_login"
          /\ i >= 3 /\ log[i - 1] = "lp_csrf"
          /\ pages(i) = 2..(i - 1) /\ Cardinality(pages(i)) <= 2
          /\ creds # "missing"
     /\ (n >= 3 /\ log[n] = "lp_nocsrf" /\ log[n - 1] = "lp_nocsrf") =>
          (c.st = "fail" /\ thr[AuthThread].err = "LOGIN_CSRF_MISSING" /\ posts = {})
     /\ (c.st = "fail" /\ thr[AuthThread].err = "LOGIN_CSRF_MISSING") =>
          log = <<"probe_login", "lp_nocsrf", "lp_nocsrf">>
     /\ (n >= 2 /\ log[n] = "lp_csrf" /\ creds = "missing") =>
          (c.st = "fail" /\ thr[AuthThread].err = "MISSING_CREDS" /\ posts = {})
     /\ (c.st = "fail" /\ thr[AuthThread].err = "MISSING_CREDS") =>
          (creds = "missing" /\ posts = {} /\ log[n] = "lp_csrf")

\* C12, its case: the first login page had no token, the retry had one, and
\* the POST followed.
C12_Witness ==
  thr[AuthThread].call.log = <<"probe_login", "lp_nocsrf", "lp_csrf", "post">>

\* C13 (SpecAuth): with a credential absent, a call that has to authenticate
\* ends with MISSING_CREDS and has issued no network request.
C13_MissingCredsBeforeNetwork ==
  (creds = "missing" /\ thr[AuthThread].call.st # "none"
                     /\ thr[AuthThread].pc # "eli_check") =>
    /\ thr[AuthThread].call.reqs = 0
    /\ thr[AuthThread].call.st # "run" =>
         (thr[AuthThread].call.st = "fail" /\ thr[AuthThread].err = "MISSING_CREDS")

\* C14 (SpecPoll), as stated: a wait_until_done whose first check finds the
\* panel not pending returns done = true after exactly one GET of the
\* overview page and without sleeping.
C14_OneOverviewFetch ==
  LET r == thr[PollThread]
  IN (r.kind = "poll" /\ r.pc = "fin" /\ r.err = "" /\ r.pdone /\ r.poll.checks = 1) =>
       (r.poll.ovs = 1 /\ r.poll.slept = 0)

\* C14 (SpecPoll), amended: the first check of wait_until_done that is
\* answered by a page whose panel is not pending ends the poll with
\* done = true, after one GET of line 596 and no sleep; the overview page was
\* fetched once, or, when the loop's ensure_logged_in found the timestamp no
\* longer fresh and wrote it anew, two or three times (its probe, its
\* verification).
C14_FirstCheckReturns ==
  [][LET r == thr[PollThread]
         q == thr'[PollThread]
     IN (r.kind = "poll" /\ r.pc = "wu_fetch" /\ r.poll.checks = 0 /\ q # r
           /\ q.resp = "page" /\ q.err = "" /\ ~portalPending[r.m]) =>
          /\ q.pc = "fin" /\ q.pdone /\ q.elapsed = now - r.start
          /\ q.poll.checks = 1 /\ q.poll.slept = 0
          /\ \/ q.poll.ovs = 1
             \/ q.poll.ovs \in {2, 3} /\ lastLoginOk >= r.start]_vars

\* C14, its case: the poll returned done = true on its first check, the
\* loop's ensure_logged_in having probed the overview page before it.
C14_Witness ==
  LET r == thr[PollThread]
  IN /\ r.kind = "poll" /\ r.pc = "fin" /\ r.err = "" /\ r.pdone
     /\ r.poll.checks = 1 /\ r.poll.slept = 0 /\ r.poll.ovs = 2

\* a poll that returned done = false
PollTimedOut ==
  LET r == thr[PollThread]
  IN r.kind = "poll" /\ r.pc = "fin" /\ r.err = "" /\ ~r.pdone

C16_TimeoutIsPartialOutcome ==
  [][LET r == thr[SetNowThread]
         q == thr'[SetNowThread]
         line == build_line_for_mobile(r.m, r.limits, r.bal)
         res == [tag |-> "update", error |-> "", mobile |-> r.m, requested |-> "7",
                 done |-> FALSE, elapsed |-> r.elapsed, line |-> line, items |-> <<>>]
     IN /\ (r.pc = "wu_fetch" /\ q # r /\ q.err = "" /\ q.pc \notin {"wu_fetch", "wu_sleep"}
              /\ ~q.pdone) =>
             (q.pc = "gl_check" /\ q.elapsed > POLL_TIMEOUT_SECONDS)
        /\ (r.pc = "sw_cache" /\ q # r /\ ~r.pdone /\ r.pq = <<>>) =>
             /\ q.pc = "fin" /\ q.err = ""
             /\ cache'[r.m] = [present |-> TRUE, ts |-> now, line |-> line,
                               status |-> "time", error_code |-> "",
                               error_ts |-> None]
             /\ Len(q.pq) = 2
             /\ q.pq[2] = [k |-> "done", msg |-> <<"", 0>>, ok |-> TRUE, result |-> res]
        /\ (r.pc = "fin" /\ Len(r.pq) = 1 /\ q.pq = <<>> /\ ~r.pdone /\ r.err = ""
              /\ r.kind = "setnow") =>
             /\ api_progress(r.op)' =
                  [ok |-> TRUE, done |-> TRUE, msg |-> <<"Complete", 0>>,
                   seq |-> progress[r.op].seq,
                   result |-> [tag |-> "update", error |-> "", mobile |-> r.m,
                               requested |-> "7", done |-> FALSE, elapsed |-> r.elapsed,
                               line |-> r.line, items |-> <<>>]]
             /\ r.elapsed > POLL_TIMEOUT_SECONDS]_vars

\* C16, its case: a manual update whose poll timed out is in the store as
\* done and ok, with done = false in its result.
C16_Witness ==
  \E o \in OpIds :
    /\ progress[o].present /\ progress[o].done /\ progress[o].ok
    /\ progress[o].result.tag = "update"
    /\ ~progress[o].result.done
    /\ progress[o].result.elapsed > POLL_TIMEOUT_SECONDS
    /\ cache[progress[o].result.mobile].line = progress[o].result.line

\* C17 (SpecSetNow): once the poll has ended, set_limit_and_wait loads the
\* overview page anew for the cap: its get_limits does not answer from the
\* limits cache.
C17_FreshLimitsAfterPoll ==
  [][(thr[SetNowThread].pc = "gl_check" /\ thr'[SetNowThread] # thr[SetNowThread]) =>
       thr'[SetNowThread].pc # "fb_get"]_vars

\* C18 (SpecSched): whichever process served the save of the schedule
\* matrix, the jobs of the running scheduler are those the saved matrix
\* gives.
C18_JobsFollowSavedMatrix ==
  \A p \in Procs : proc[p].sched => proc[p].jobs = JobsOf(cfgFile)

\* C19 (SpecSched): at most one process has a scheduler; a process that has
\* one holds the lock on SCHED_LOCK_PATH for as long as it has it; and a
\* scheduler comes to exist only in a process that has just been granted the
\* lock, which no other process then held.
C19_SingleScheduler ==
  [][/\ Cardinality({p \in Procs : proc'[p].sched}) <= 1
     /\ \A p \in Procs :
          /\ proc'[p].sched => (proc'[p].up /\ lockHolder' = p)
          /\ (proc'[p].sched /\ ~proc[p].sched) =>
               (lockHolder = NoProc /\ lockHolder' = p
                  /\ \A q \in Procs \ {p} : ~proc[q].sched)]_vars

\* C19, its case: two processes are up, one of them holds the lock and runs
\* the scheduler with a job, the other started without one.
C19_Witness ==
  \E p, q \in Procs :
    /\ p # q /\ proc[p].up /\ proc[q].up
    /\ proc[p].sched /\ lockHolder = p /\ proc[p].jobs # {}
    /\ ~proc[q].sched

\* C20 (SpecFire): a firing that fails does not propagate its failure.  The
\* step in which set_limit_and_wait raises takes run_scheduled_set to its
\* end with the scheduler and its jobs as they were; the firing ends with
\* its log line and the scheduler still running; and whenever the scheduler's
\* thread is free every job of the scheduler can fire.
C20_FiringNeverPropagates ==
  /\ [][LET r == thr[FireThread]
            q == thr'[FireThread]
        IN /\ (r.kind = "sched" /\ r.err = "" /\ q.err # "") =>
                (q.kind = "sched" /\ q.pc = "fin" /\ q.stack = <<>>
                   /\ proc' = proc /\ lockHolder' = lockHolder)
           /\ schedOut' # schedOut =>
                /\ schedOut' = Append(schedOut, [mobile |-> r.m, ok |-> r.err = ""])
                /\ q.pc = "idle"
                /\ proc' = proc /\ proc[FireProc].sched]_vars
  /\ []((thr[FireThread].pc = "idle" /\ thr[FireThread].ncalls < MaxUpdates) =>
          \A j \in proc[FireProc].jobs : ENABLED Fire(FireProc, FireThread, j.mobile))

\* C20, its case: a firing failed, and after it the job of another line
\* fired and ran to its end.
C20_Witness ==
  /\ Len(schedOut) = 1 /\ ~schedOut[1].ok
  /\ thr[FireThread].kind = "sched" /\ thr[FireThread].m # schedOut[1].mobile
  /\ thr[FireThread].pc = "fin" /\ thr[FireThread].err = ""
  /\ proc[FireProc].sched

\* C30 (SpecBalance): a fetch_balance_json call asks the balance endpoint at
\* most twice.  A second GET follows only a first answer that was no JSON,
\* after the authenticated timestamp was set to 0 (in the step of that
\* answer) and an ensure_logged_in that probed the portal and returned; a
\* body that cannot be parsed ends the call with BALANCE_PARSE_FAIL; an error
\* status on either GET ends the call with that error, no request after it.
C30_AtMostTwoBalanceGets ==
  [][LET r == thr[BalThread]
         q == thr'[BalThread]
         log == q.call.log
         n == Len(log)
         bal == {i \in 1..n : log[i] \in {"bal_err", "bal_html", "bal_junk", "bal_json"}}
     IN q.kind = "bal" =>
          /\ Cardinality(bal) <= 2
          /\ \A i \in bal : i > 1 =>
               /\ log[1] = "bal_html" /\ i >= 3
               /\ log[i - 1] \in {"probe_page", "verify_page"}
               /\ log[2] \in {"probe_page", "probe_login"}
          /\ (r.kind = "bal" /\ n > Len(r.call.log) /\ log = <<"bal_html">>) =>
               (lastLoginOk' = 0 /\ q.pc = "eli_check")
          /\ \A i \in 1..n : log[i] \in {"bal_err", "bal_junk"} => i = n
          /\ (n > 0 /\ log[n] = "bal_err") => (q.pc = "fin" /\ q.err = "HTTP_5XX")
          /\ (n > 0 /\ (log[n] = "bal_junk" \/ (n > 1 /\ log[n] = "bal_html"))) =>
               (q.pc = "fin" /\ q.err = "BALANCE_PARSE_FAIL")
          /\ (n > 0 /\ log[n] = "bal_json") => (q.pc = "fin" /\ q.err = "")]_vars

\* C30, its case: the first answer was a login page, the call logged in
\* again, and the second answer had a body that could not be parsed.
C30_Witness ==
  LET log == thr[BalThread].call.log
  IN /\ thr[BalThread].kind = "bal" /\ thr[BalThread].err = "BALANCE_PARSE_FAIL"
     /\ Len(log) >= 3 /\ log[1] = "bal_html" /\ log[Len(log)] = "bal_junk"

\* C29 (SpecClassify): every failed request is classified, onto the codes
\* TLS_FAIL, OUTBOUND_TIMEOUT, DNS_FAIL, OUTBOUND_CONNECT_FAIL,
\* OUTBOUND_REQUEST_FAIL, HTTP_403, HTTP_5XX and HTTP_<status>: a TLS error
\* gives TLS_FAIL, otherwise a timeout gives OUTBOUND_TIMEOUT, otherwise a
\* connection error gives DNS_FAIL with the shared cannot-connect message when
\* its text holds a DNS marker and OUTBOUND_CONNECT_FAIL when it does not, and
\* any other failure gives OUTBOUND_REQUEST_FAIL; a status of 400 or more is
\* classified by the status alone, 403 as HTTP_403, 500..599 as HTTP_5XX, any
\* other as HTTP_<status>; and no code comes with two messages.
C29_ClassificationTotal ==
  (fnArg \in ClassifyArgs /\ fnRet # <<>>) =>
    LET a == fnArg
        r == fnRet[1]
        dns == \E i \in 1..Len(a.text) :
                 \/ a.text[i].w = "getaddrinfo"
                 \/ /\ a.text[i].w = "resolution"
                    /\ i > 1 /\ a.text[i - 1].w = "name"
                 \/ /\ a.text[i].w = "known" /\ i > 4
                    /\ <<a.text[i - 4].w, a.text[i - 3].w, a.text[i - 2].w, a.text[i - 1].w>>
                         = <<"name", "or", "service", "not">>
                 \/ /\ a.text[i].w = "servname" /\ i > 2
                    /\ a.text[i - 2].w = "nodename" /\ a.text[i - 1].w = "nor"
                 \/ /\ a.text[i].w = "resolve" /\ i > 2
                    /\ a.text[i - 2].w = "failed" /\ a.text[i - 1].w = "to"
        of(x) == IF x.kind = "exc" THEN _classify_request_exception(x)
                 ELSE _raise_if_http_error(x.status)
    IN /\ a.kind = "exc" =>
            /\ r.code = (IF a.cls = "SSLError" THEN "TLS_FAIL"
                         ELSE IF a.cls \in {"ConnectTimeout", "ReadTimeout"}
                           THEN "OUTBOUND_TIMEOUT"
                         ELSE IF a.cls \in {"ConnectionError", "ProxyError"}
                           THEN (IF dns THEN "DNS_FAIL" ELSE "OUTBOUND_CONNECT_FAIL")
                         ELSE "OUTBOUND_REQUEST_FAIL")
            /\ r.code = "DNS_FAIL" => r.msg = UPSTREAM_UNREACHABLE_MSG
       /\ (a.kind = "http" /\ a.status >= 400) =>
            r.code = (IF a.status = 403 THEN "HTTP_403"
                      ELSE IF a.status \in 500..599 THEN "HTTP_5XX"
                      ELSE "HTTP_" \o ToString(a.status))
       /\ (a.kind = "http" /\ a.status < 400) => r.code = ""
       /\ r.code # "" => r.msg # ""
       /\ r.code \in {"TLS_FAIL", "OUTBOUND_TIMEOUT", "DNS_FAIL", "OUTBOUND_CONNECT_FAIL",
                      "OUTBOUND_REQUEST_FAIL", "HTTP_403", "HTTP_5XX"} =>
            r.msg = public_error_message(r.code)
       /\ \A b \in ClassifyArgs : of(b).code = r.code => of(b).msg = r.msg

\* C29, its case: a connection error that names a failed resolution, in
\* capitals here and there, was classified DNS_FAIL with the shared message.
C29_Witness ==
  /\ fnArg \in ClassifyArgs /\ fnRet # <<>>
  /\ fnArg.cls = "ConnectionError"
  /\ Len(fnArg.text) > 0 /\ \E i \in 1..Len(fnArg.text) : fnArg.text[i].cap
  /\ fnRet[1] = [code |-> "DNS_FAIL", msg |-> UPSTREAM_UNREACHABLE_MSG]

C27_CacheWrittenAfterUpdate ==
  \A t \in WorkerTIDs :
     (thr[t].kind = "setnow" /\ Ready(t, "fin")) =>
        LET e == cache[thr[t].m]
        IN /\ e.present
           /\ thr[t].err = "" => (e.status = "time" /\ e.error_code = "")
           /\ thr[t].err # "" =>
                (e.status = "Error" /\ e.error_code # "" /\ e.error_ts # None)

\* C28 (SpecOps): an interactive operation whose worker fails while
\* authenticating, loading the limits or running the update workflow ends
\* with done = true, ok = false and the result {error: m}, m being the
\* message public_error_message gives for the error; the messages of a DNS
\* failure, HTTP 403, HTTP 5xx, a failed login, missing credentials and a
\* line or form that is not found differ from one another; and no operation
\* that failed is reported with ok = true.
C28_FailureReported ==
  LET r == thr[OpsThread]
      p == progress[r.op]
      listed == {"DNS_FAIL", "HTTP_403", "HTTP_5XX", "LOGIN_FAILED", "MISSING_CREDS", "EXC"}
  IN (r.kind \in {"home", "refresh", "setnow"} /\ r.err # "" /\ r.pq = <<>>) =>
       /\ r.pc = "fin"
       /\ p.present /\ p.done /\ ~p.ok
       /\ p.result = ErrorResult(public_error_message(r.err))
       /\ p.result.error # ""
       /\ \A c \in listed \ {r.err} :
            public_error_message(c) # p.result.error

\* C28, its case: a manual update found the portal refusing access when it
\* posted the form, and has reported it.
C28_Witness ==
  LET r == thr[OpsThread]
  IN /\ r.kind = "setnow" /\ r.err = "HTTP_403" /\ Ready(OpsThread, "fin")
     /\ lastLoginOk > 0 /\ r.limits # NoLimits
     /\ progress[r.op].done

\* C21 (SpecJobs): when reload_jobs has completed in the process that has the
\* scheduler, there is exactly one job for every (line, day, slot index 0..3)
\* whose line is enabled and whose slot has a time of the form HH:MM and a
\* value, and no other job; the job fires at that hour and minute of that
\* weekday in the configured timezone and runs the update of the line with
\* the slot's value.
C21_JobsMatchMatrix ==
  (proc[JobsProc].sched /\ KnownZone(cfgFile.timezone)) =>
     LET jobs == proc[JobsProc].jobs
         places == MOBILES \X DaySet \X (0..3)
         digits(x) == Len(x) > 0 /\ \A k \in 1..Len(x) : x[k] \in 0..9
         hhmm(t) == \E k \in 1..Len(t) :
                      /\ t[k] = 10
                      /\ digits(SubSeq(t, 1, k - 1)) /\ digits(SubSeq(t, k + 1, Len(t)))
         colon(t) == CHOOSE k \in 1..Len(t) : t[k] = 10
     IN /\ \A j \in jobs : j.id \in places
        /\ \A x \in places :
             LET slot == cfgFile.mobiles[x[1]].week[x[2]][x[3] + 1]
                 mine == {j \in jobs : j.id = x}
             IN IF cfgFile.mobiles[x[1]].enabled /\ hhmm(slot.time) /\ slot.value # ""
                  THEN /\ Cardinality(mine) = 1
                       /\ \A j \in mine :
                            /\ j.day = x[2] /\ j.timezone = cfgFile.timezone
                            /\ j.hour = int(SubSeq(slot.time, 1, colon(slot.time) - 1))
                            /\ j.minute = int(SubSeq(slot.time, colon(slot.time) + 1,
                                                     Len(slot.time)))
                            /\ j.mobile = x[1] /\ j.value = slot.value
                  ELSE mine = {}

\* C21, its case: the first line is enabled with 23:59 -> 9 in Sunday's last
\* slot and has its job, the last line is switched off with the same slot
\* filled and has none.
C21_Witness ==
  /\ proc[JobsProc].sched
  /\ [id |-> <<1, "sun", 3>>, day |-> "sun", hour |-> 23, minute |-> 59,
      timezone |-> "UTC", mobile |-> 1, value |-> "9"] \in proc[JobsProc].jobs
  /\ ~cfgFile.mobiles[NumLines].enabled
  /\ cfgFile.mobiles[NumLines].week["sun"][4].value = "9"
  /\ \A j \in proc[JobsProc].jobs : j.mobile # NumLines

\* C22 (SpecConfig): saving a well-shaped matrix and loading it gives the
\* matrix back slot for slot, and loading again gives the same: a load_cfg
\* that finds a well-shaped matrix in the file, as save_cfg has left it,
\* returns that matrix, leaves it in the file, and would return it again.
C22_SaveLoadRoundTrip ==
  [][fnVars' # fnVars =>
       LET M == cfgFile
           wellShaped ==
             /\ M.kind = "json" /\ M.timezone # ""
             /\ \A m \in MOBILES :
                  /\ M.mobiles[m].has_enabled
                  /\ Len(M.mobiles[m].default) = 4
                  /\ \A d \in DaySet : Len(M.mobiles[m].week[d]) = 4
       IN /\ wellShaped =>
               /\ fnRet'[1].timezone = M.timezone
               /\ \A m \in MOBILES :
                    /\ fnRet'[1].mobiles[m].enabled = M.mobiles[m].enabled
                    /\ \A k \in 1..4 :
                         /\ fnRet'[1].mobiles[m].default[k] = M.mobiles[m].default[k]
                         /\ \A d \in DaySet :
                              fnRet'[1].mobiles[m].week[d][k] = M.mobiles[m].week[d][k]
               /\ cfgFile' = M
          /\ load_cfg(cfgFile') = fnRet'[1]]_vars

\* C22, its case: a matrix with a line switched off and 23:59 -> 9 in its
\* week was saved, found by load_cfg, returned, and is still in the file.
C22_Witness ==
  /\ fnArg # <<>> /\ fnArg[1] \in Matrices
  /\ ~fnArg[1].mobiles[NumLines].enabled
  /\ fnRet = fnArg /\ cfgFile = fnArg[1]

\* C23 (SpecConfig): whatever the file holds and whatever loads, saves of the
\* scheduler page and copies of the defaults came before, the configuration
\* load_cfg returns has for every known line a default row of exactly 4
\* slots and, for each of the 7 days, exactly 4 slots: the slots found, cut
\* after the fourth, with empty slots for those that were missing; a file
\* that is missing or malformed gives the default configuration; and what is
\* returned is what the file holds afterwards.
C23_LoadedConfigShaped ==
  [][fnVars' # fnVars =>
       LET found == cfgFile
           c == fnRet'[1]
           shaped(row, from) ==
             /\ Len(row) = 4
             /\ \A k \in 1..4 : row[k] = IF k <= Len(from) THEN from[k] ELSE EmptySlot
       IN /\ DOMAIN c.mobiles = MOBILES
          /\ \A m \in MOBILES :
               /\ DOMAIN c.mobiles[m].week = {"mon", "tue", "wed", "thu", "fri", "sat", "sun"}
               /\ Len(c.mobiles[m].default) = 4
               /\ \A d \in DOMAIN c.mobiles[m].week : Len(c.mobiles[m].week[d]) = 4
               /\ found.kind = "json" =>
                    /\ shaped(c.mobiles[m].default, found.mobiles[m].default)
                    /\ \A d \in DaySet :
                         shaped(c.mobiles[m].week[d], found.mobiles[m].week[d])
          /\ found.kind \in {"missing", "malformed"} =>
               (/\ c.timezone = "Australia/Brisbane"
                /\ \A m \in MOBILES :
                     /\ c.mobiles[m].enabled
                     /\ \A k \in 1..4 :
                          /\ c.mobiles[m].default[k] = [time |-> <<>>, value |-> ""]
                          /\ \A d \in DaySet :
                               c.mobiles[m].week[d][k] = [time |-> <<>>, value |-> ""])
          /\ cfgFile' = c /\ cfgFile'.kind = "json"]_vars

\* C23, its case: load_cfg found a document whose first line has a day of
\* five slots, a day of two and a day without a list, and returned it with
\* four slots everywhere.
C23_Witness ==
  /\ fnArg # <<>> /\ fnRet # <<>>
  /\ fnArg[1].kind = "json"
  /\ Len(fnArg[1].mobiles[1].week["mon"]) = 5
  /\ Len(fnArg[1].mobiles[1].week["sun"]) = 2
  /\ Len(fnArg[1].mobiles[1].week["tue"]) = 0
  /\ \A d \in DaySet : Len(fnRet[1].mobiles[1].week[d]) = 4
  /\ fnRet[1].mobiles[1].week["mon"][1] = SixSeven

\* C24 (SpecCfgRace): the matrix in the file changes through the explicit
\* saves only: a load_cfg, its save included, leaves the content of a file
\* that holds a well-shaped matrix as it is, also when a save of the
\* scheduler page came between its read and its save.
C24_LoadNeverReplaces ==
  [][(fnArg # <<>> /\ fnArg' = <<>>) => cfgFile' = cfgFile]_vars

\* The instant at which a slot with a time of the day comes next strictly
\* after now, as the scheduler will fire it: on the date of its day, or a
\* week later when that instant is not after now.
NextOccurrence(c, minute) ==
  IF At(c) > minute THEN At(c) ELSE At(c) + WindowDays * 24 * 60

\* C25 (SpecNextChange): for a line that is switched on,
\* get_next_scheduled_change returns the label and the formatted value of
\* the populated slot whose occurrence is the soonest strictly after now
\* within the next 7 days, and nothing when no slot is populated; for a line
\* that is switched off it returns nothing.
C25_SoonestOccurrence ==
  fnRet # <<>> =>
    LET a == fnArg
        r == fnRet[1]
        populated == {c \in Timed(a.mcfg, a.weekday) : c.hh <= 23 /\ c.mm <= 59}
        due == {c \in populated :
                  /\ NextOccurrence(c, a.minute) <= a.minute + WindowDays * 24 * 60
                  /\ \A o \in populated :
                       NextOccurrence(c, a.minute) <= NextOccurrence(o, a.minute)}
    IN IF ~a.mcfg.enabled \/ due = {} THEN r = NoChange
       ELSE /\ ~r.raised
            /\ \E c \in due :
                 r.change = <<[next_change_label |->
                                 Label(a.weekday, NextOccurrence(c, a.minute)),
                               next_change_gb |-> format_gb_value(c.value)]>>

\* C31 (SpecLine): with a cap that is known and positive and a usage counter
\* in the balance, the displayed remaining is max(cap - used, 0), never
\* negative; otherwise it is the remaining data the plan reports, unknown
\* when the balance has none either.
C31_DisplayedRemaining ==
  fnRet # <<>> =>
    LET lim == fnArg.lim
        items == fnArg.js.resource_items \o fnArg.js.RESOURCE_BALANCE
        counters == {i \in 1..Len(items) :
                       items[i].plan_name[Len(items[i].plan_name)].w = "counter"}
        plans == {i \in 1..Len(items) :
                    items[i].plan_name[Len(items[i].plan_name)].w = "remaining"}
        counter == IF counters = {} THEN <<>>
                   ELSE items[CHOOSE i \in counters : \A j \in counters : j <= i].value
        plan == IF plans = {} THEN <<>>
                ELSE items[CHOOSE i \in plans : \A j \in plans : j <= i].value
        line == fnRet[1]
    IN /\ (counter # <<>>) = (line.used # None)
       /\ IF lim \notin {Absent, None} /\ lim > 0 /\ counter # <<>>
            THEN /\ line.rem = Max(lim - line.used, 0)
                 /\ line.rem >= 0
            ELSE line.rem = IF plan = <<>> THEN None ELSE _mb_to_gb(plan[1])

\* C31, its case: a cap of 1 GB and a counter at 5 GB display 0 remaining
\* although the plan reports 3 GB.
C31_Witness ==
  /\ fnRet # <<>>
  /\ fnArg.lim = 1
  /\ fnArg.js.RESOURCE_BALANCE # <<>>
  /\ fnRet[1] = [lim |-> 1, used |-> 5, rem |-> 0]
  /\ _extract_balance_items(fnArg.js).rem = 3

\* C32 (SpecSubmit): submit_limit_form changes the caches only after its
\* form POST has succeeded.  A call that raises (authentication, the
\* overview, the line's panel, form or token, the POST itself) has made no
\* successful POST and leaves the line's cache entry and the shared caps,
\* mapping and timestamp, as they were before the call; a call that returns
\* has evicted the line's entry and set the line's shared cap to the
\* requested value as a number, unknown when it is none.
C32_CachesChangeAfterPost ==
  [][LET r == thr[SubmitThread]
         q == thr'[SubmitThread]
         posted == {"sl_write_map", "sl_write_ts", "sl_evict"}
     IN /\ (cache' # cache \/ limMap' # limMap \/ limTs' # limTs) => r.pc \in posted
        /\ (r.pc \notin {"idle", "fin"} /\ q.pc = "fin" /\ q.err # "") =>
             /\ r.pc \notin posted
             /\ portalPending' = [m \in MOBILES |-> FALSE]
             /\ cache' = fnArg[1].cache
             /\ limMap' = fnArg[1].limits
             /\ limTs' = fnArg[1].ts
        /\ (r.pc \notin {"idle", "fin"} /\ q.pc = "fin" /\ q.err = "") =>
             /\ cache' = [fnArg[1].cache EXCEPT ![r.m] = NoEntry]
             /\ limMap' = [fnArg[1].limits EXCEPT ![r.m] = ParseFloat(r.v)]]_vars

\* C32, its case: a call that found filled caches has failed at its POST.
C32_Witness ==
  /\ thr[SubmitThread].pc = "fin"
  /\ thr[SubmitThread].err = "HTTP_5XX"
  /\ thr[SubmitThread].resp = "page"
  /\ fnArg # <<>>
  /\ cache[thr[SubmitThread].m].present
  /\ limMap[thr[SubmitThread].m] = 5

NextFiring(j, weekday, minute) ==
  LET at == ((WEEKDAY_INDEX(j.day) - weekday) % 7) * 24 * 60 + j.hour * 60 + j.minute
  IN IF at > minute THEN at ELSE at + WindowDays * 24 * 60

\* C34 (SpecNextChange): for an enabled line whose slot times are valid, the
\* next change get_next_scheduled_change reports is the first firing to come
\* among the jobs reload_jobs builds for the line, the same instant and the
\* same value, and it is empty only when the line has no job; a line whose
\* only slot is on today's weekday at a time that has passed is reported with
\* that slot a week later.
C34_NextChangeIsFirstFiring ==
  (/\ fnRet # <<>>
   /\ fnArg.mcfg.enabled
   /\ \A c \in Timed(fnArg.mcfg, fnArg.weekday) : c.hh <= 23 /\ c.mm <= 59) =>
    LET cfg == [default_config EXCEPT !.mobiles[1] = fnArg.mcfg]
        jobs == {j \in JobsOf(cfg) : j.mobile = 1}
        first == {j \in jobs :
                    \A o \in jobs : NextFiring(j, fnArg.weekday, fnArg.minute)
                                      <= NextFiring(o, fnArg.weekday, fnArg.minute)}
    IN IF jobs = {} THEN fnRet[1] = NoChange
       ELSE \E j \in first :
              fnRet[1] =
                [raised |-> FALSE,
                 change |-> <<[next_change_label |->
                                 Label(fnArg.weekday,
                                       NextFiring(j, fnArg.weekday, fnArg.minute)),
                               next_change_gb |-> format_gb_value(j.value)]>>]

\* C35 (SpecRebuild): a populated slot of an enabled line is run at each of
\* its due times, also when a save that leaves the slot as it was rebuilds
\* the jobs while the slot comes due.
C35_RebuildKeepsFiring ==
  \A i \in 1..Len(fnRet) : fnRet[i].kept => fnRet[i].run

\* C36 (SpecStoreFair): every started operation has done = true in its
\* progress record at some time, whether its work succeeds or fails.
C36_EventuallyDone ==
  \A o \in OpIds : (nextOp >= o) ~> (progress[o].present /\ progress[o].done)

\* C37 (SpecStore): a record that progress_init has put into the progress
\* store stays there while other operations create and update theirs, so a
\* poll for its id is not answered with Unknown operation.
C37_RecordStays ==
  [][\A o \in OpIds : progress[o].present => progress'[o].present]_vars

\* C38 (SpecBadSlot): a populated slot whose time is digits:digits but no
\* time of the day is inert.  reload_jobs makes no job for it and makes the
\* job of every other populated slot of every enabled line, and
\* get_next_scheduled_change answers as if the slot were empty.
C38_BadSlotInert ==
  LET bad(slot) == /\ Schedulable(slot)
                   /\ \/ int(SplitTime(slot.time).hh) > 23
                      \/ int(SplitTime(slot.time).mm) > 59
      without(mcfg) ==
        [mcfg EXCEPT !.week = [d \in DaySet |-> [i \in 1..SlotsPerRow |->
                                 IF bad(mcfg.week[d][i]) THEN EmptySlot
                                 ELSE mcfg.week[d][i]]]]
  IN /\ proc[JobsProc].sched =>
          proc[JobsProc].jobs =
            {j \in JobsOf(cfgFile) : ~bad(cfgFile.mobiles[j.id[1]].week[j.id[2]][j.id[3] + 1])}
     /\ fnRet # <<>> =>
          fnRet[1] = get_next_scheduled_change(without(fnArg[1].mcfg),
                                               fnArg[1].weekday, fnArg[1].minute)

\* C39 (SpecRelogin): get_limits puts into the shared caps only what it parsed
\* from an overview page that is no login page: when the page fetched after
\* the forced login is a login page again, no mapping with every cap unknown
\* is stored for later calls to return.
C39_NoLoginPageCached ==
  [][\A t \in TIDs :
       (thr[t].pc = "gl_write_map" /\ limMap' # limMap) =>
          /\ thr[t].resp = "page"
          /\ \E m \in MOBILES : limMap'[m] # None]_vars

====
